---- MODULE Spec2Model ----
(***************************************************************************)
(* Model of the recorder application (RecorderApp): the dispatch of        *)
(* control-surface events in _handleUIEvent, the three ad hoc command      *)
(* paths (_executeUIAction, _executeUIExtraction, _executeArbitraryCode),  *)
(* the temporary call log they drive and the session state they share.     *)
(*                                                                         *)
(* JavaScript strings are sequences of tokens, a token being either the    *)
(* blank " " or a non-blank piece of text, so that String.trim() is a real *)
(* computation.  An optional parameter is a record [defined, text].        *)
(* An error is the sequence of the parts of its message.                   *)
(***************************************************************************)
EXTENDS Integers, Sequences, FiniteSets, TLC

\* ------------------------------------------------------------------ bounds
MaxCmds == 2
MaxDispatchCmds == 1
MaxDispatchActions == 1
MaxAdHocCmds == 2
MaxMutations == 1
MaxSessionActions == 2
MaxSignals == 1
MaxScopeCmds == 2
MaxPushes == 2
MaxPushCmds == 1
MaxStreamLen == 3
MaxTimedCmds == 2
MaxTicks == 2
MaxEmitted == 3
MaxRecordingCmds == 1
MaxRecordingActions == 1
MaxSignalStream == 2
MaxPicks == 2
MaxShows == 2
MaxToasts == 2
MaxToastTicks == 4

\* --------------------------------------------------------------- constants
DeadlineMs == 5000
DefaultToastMs == 5000
\* The step in which the time of the control surface advances.
ToastTickMs == DefaultToastMs \div 2

VARIABLES
  pages,          \* Recorder.pageAliases(): tracked pages, insertion order
  callLog,        \* Recorder: temporary call-log entries, index = id
  cmds,           \* the ad hoc commands dispatched so far, in issue order
  published,      \* calls of window.playwrightExtractionResult, in order
  consoleErrors,  \* console.error diagnostics written by the dispatcher
  lastDispatch,   \* how the latest call of _handleUIEvent ended
  actions,              \* RecorderApp._actions, the ActionStream
  recorderSources,      \* RecorderApp._recorderSources
  userSources,          \* RecorderApp._userSources
  primaryGeneratorId,   \* RecorderApp._primaryGeneratorId
  selectedGeneratorId,  \* RecorderApp._selectedGeneratorId
  generateAutoExpect,   \* _languageGeneratorOptions.generateAutoExpect: <<>>
                        \* while unset, <<b>> once set to b
  recorderCalls,        \* control calls the latest _handleUIEvent made on the Recorder
  surface,              \* the latest call of each control-surface entry point
  outputFile,           \* RecorderApp._throttledOutputFile
  lifecycle,            \* open | closing | discarded: the teardown of the session
  dom,                  \* the inspected page's document: what a query reads
  brokenGenerators,     \* ids of the language generators whose generateCode throws
  host,                 \* what the global scope of the host process holds
  deliveries,           \* the promises of the calls the Recorder-event pushes
                        \* made on the control-surface page since _init
  clock,                \* the monotonic time the Recorder reads, in ticks
  programmatic,         \* ProgrammaticRecorderApp.run: the generator it chose,
                        \* its lastAction (<<>> for null) and the events it
                        \* emitted on the inspected context
  marker,               \* inspectedContext[recorderAppSymbol]: set or not
  shows,                \* the calls of show / showInspectorNoReply for the
                        \* inspected context, each with its position
  toastUi               \* the control surface's toast list (useToast), the
                        \* timers its ToastContainer armed, and the time

executorVars == <<pages, callLog, cmds, published, consoleErrors>>
sessionVars == <<actions, recorderSources, userSources, primaryGeneratorId,
                 selectedGeneratorId, generateAutoExpect>>
environmentVars == <<lifecycle, dom, brokenGenerators, host, deliveries,
                     clock, programmatic,
                     marker, shows, toastUi>>
vars == <<pages, callLog, cmds, published, consoleErrors, lastDispatch,
          actions, recorderSources, userSources, primaryGeneratorId,
          selectedGeneratorId, generateAutoExpect, recorderCalls, surface,
          outputFile, lifecycle, dom, brokenGenerators, host, deliveries,
          clock, programmatic,
          marker, shows, toastUi>>

\* ----------------------------------------------------------------- strings
Blank == " "
Undefined == "<undefined>"

Str(s) == [defined |-> TRUE, text |-> s]
Absent == [defined |-> FALSE, text |-> <<>>]

RECURSIVE TrimStart(_)
TrimStart(s) ==
  IF s = <<>> THEN <<>>
  ELSE IF Head(s) = Blank THEN TrimStart(Tail(s)) ELSE s

RECURSIVE TrimEnd(_)
TrimEnd(s) ==
  IF s = <<>> THEN <<>>
  ELSE IF s[Len(s)] = Blank THEN TrimEnd(SubSeq(s, 1, Len(s) - 1)) ELSE s

Trim(s) == TrimEnd(TrimStart(s))

\* Variant of MissingText: `!value`, the test without the trim.
MissingTextUntrimmed(p) == IF p.defined THEN p.text = <<>> ELSE TRUE

\* `!value?.trim()`: true of undefined, of "" and of a blank-only string
MissingText(p) == IF p.defined THEN Trim(p.text) = <<>> ELSE TRUE

\* ------------------------------------------------------------------ errors
ErrLocatorRequired == <<"Locator is required">>
ErrCodeRequired == <<"Code is required">>
ErrNoPagesAction == <<"No pages available for action execution">>
ErrNoPagesCode == <<"No pages available for code execution">>
ErrNoPagesFrame == <<"No pages available">>
ErrTimeout == <<"Timeout 5000ms exceeded">>
ErrOperation == <<"operation failed">>
ErrUnsupportedAction(name) == <<"Unsupported action: ", name>>
ErrUnsupportedExtraction(name) == <<"Unsupported extraction: ", name>>
ErrUnknownEvent(event) == <<"Unknown event: ", event>>
ErrExecuteCode(code, inner) == <<"Failed to execute code ">> \o code \o <<": ">> \o inner
ErrGenerator == <<"generator failed">>
NoError == <<>>

Thrown(e) == [threw |-> TRUE, err |-> e]
Returned == [threw |-> FALSE, err |-> NoError]

\* ------------------------------------------------- the Recorder's call log
\* CallLogStatus of recorderTypes.d.ts
CallLogStatus == {"in-progress", "done", "error", "paused"}
Terminal == {"done", "error"}

\* Recorder.pushTemporaryCallLog: allocates the next id, inserts an
\* in-progress entry without duration and returns the id (the index of the
\* new entry).
PushTemporaryCallLog(log, actionInContext) ==
  Append(log, [id |-> Len(log) + 1,
               title |-> actionInContext.action.name,
               selector |-> actionInContext.action.selector,
               status |-> "in-progress",
               error |-> NoError,
               result |-> Undefined,
               createdAt |-> clock,
               duration |-> <<>>,
               updates |-> 0])

\* Variant of UpdateTemporaryCallLog: the duration is recorded for a done
\* entry only.
UpdateTemporaryCallLogTimingDone(log, id, status, payload) ==
  [log EXCEPT ![id] =
     [@ EXCEPT !.status = status,
               !.error = IF status = "error" THEN payload ELSE @,
               !.result = IF status = "done" THEN payload ELSE @,
               !.duration = IF status = "done"
                            THEN <<clock - log[id].createdAt>> ELSE @,
               !.updates = @ + 1]]

\* Recorder.updateTemporaryCallLog: sets the status of the entry, stores the
\* message of an error or the value of a done command and, for a terminal
\* status, the duration since the entry was created.  `updates` counts the
\* calls made for the entry.
UpdateTemporaryCallLog(log, id, status, payload) ==
  [log EXCEPT ![id] =
     [@ EXCEPT !.status = status,
               !.error = IF status = "error" THEN payload ELSE @,
               !.result = IF status = "done" THEN payload ELSE @,
               !.duration = IF status \in Terminal
                            THEN <<clock - log[id].createdAt>> ELSE @,
               !.updates = @ + 1]]

\* Recorder.frameForSelector: the main frame of the first tracked page;
\* fails when the session tracks no page.
FrameForSelector(pgs, selector) ==
  IF Len(pgs) = 0
  THEN [threw |-> TRUE, err |-> ErrNoPagesFrame, page |-> 0]
  ELSE [threw |-> FALSE, err |-> NoError, page |-> pgs[1]]

\* ------------------------------------------------------ page operations
\* An operation started against the live page and awaited by a command.
\*   deadline: the await is raced against the 5000 ms ProgressController timer
\*   settles : the operation itself completes (the page answers); under a
\*             deadline a page that never answers shows as the timeout, so
\*             the flag is kept only for operations without a deadline
\*   fails   : the operation can complete with a failure
\*   values  : the values it can complete with
NoOp == [kind |-> "none", deadline |-> FALSE, settles |-> FALSE,
         fails |-> {}, values |-> {}]

\* The values a frame query can resolve to (its declared type is any).
QueryValues == {"text", Undefined}

\* Stands, among the values of an operation, for what the document holds
\* when the operation completes.
FromDocument == "<document>"

\* recorderRunner.performAction: runs the action on the main frame of the
\* action's page under the fixed action timeout; it resolves to no value.
PerformAction(responds) ==
  [kind |-> "performAction", deadline |-> TRUE, settles |-> TRUE,
   fails |-> {ErrOperation}, values |-> {Undefined}]

SupportedExtractions ==
  {"innerText", "textContent", "getAttribute", "isVisible", "isEnabled",
   "isChecked", "count", "boundingBox"}

\* Variant of PerformExtraction: the switch has no default branch that
\* throws, an unrecognised kind is queried like innerText.
PerformExtractionLenient(extraction, responds) ==
  [kind |-> "query", deadline |-> TRUE, settles |-> TRUE,
   fails |-> {ErrOperation}, values |-> {FromDocument}]

\* _performExtraction: one frame query under controller.run(..., 5000); an
\* unrecognised kind throws inside the task without reaching the page.
PerformExtraction(extraction, responds) ==
  IF extraction \in SupportedExtractions
  THEN [kind |-> "query", deadline |-> TRUE, settles |-> TRUE,
        fails |-> {ErrOperation}, values |-> {FromDocument}]
  ELSE [kind |-> "unsupported", deadline |-> TRUE, settles |-> TRUE,
        fails |-> {ErrUnsupportedExtraction(extraction)}, values |-> {}]

\* Stands, among the values of an operation, for what the global scope of
\* the host process holds when the operation completes.
FromHost == "<host>"

\* The ways an awaited operation can end on a given document in a given
\* host process: with a value, with a failure, or (only when a deadline is
\* armed) with the timeout of the deadline.
OutcomesOn(op, document, hostState) ==
  (IF op.settles
   THEN {[ok |-> TRUE,
          value |-> IF v = FromDocument THEN document
                    ELSE IF v = FromHost THEN hostState ELSE v,
          err |-> NoError] : v \in op.values}
        \cup {[ok |-> FALSE, value |-> Undefined, err |-> e] : e \in op.fails}
   ELSE {})
  \cup (IF op.deadline /\ op.kind # "unsupported"
        THEN {[ok |-> FALSE, value |-> Undefined, err |-> ErrTimeout]}
        ELSE {})

Outcomes(op) == OutcomesOn(op, dom.text, host)

\* ------------------------------------------------- arbitrary expressions
\* The expressions of the model, one token each.
ExprLocatorClick == "locator('#a').click()"
ExprLocatorInnerText == "locator('#a').innerText()"
ExprPageTitle == "page.title()"
ExprPageUrl == "page.url()"
ExprPageGoto == "page.goto('u')"
ExprNeverSettles == "new Promise(() => {})"
ExprSyntaxError == "("
ExprProcessEnv == "process.env.HOME"
ExprLocatorCount == "locator('#a').count()"

Expressions ==
  {ExprLocatorClick, ExprLocatorInnerText, ExprPageTitle, ExprPageUrl,
   ExprPageGoto, ExprNeverSettles, ExprSyntaxError}

\* The method an expression calls on a locator, if it is such a call.
LocatorMethod(expr) ==
  IF expr = ExprLocatorClick THEN "click"
  ELSE IF expr = ExprLocatorInnerText THEN "innerText"
  ELSE IF expr = ExprLocatorCount THEN "count"
  ELSE Undefined

\* The methods of the object _createLocatorWrapper returns.
LocatorWrapperMethods ==
  {"click", "fill", "press", "innerText", "textContent", "isVisible",
   "isEnabled", "isChecked"}

\* The locator methods the first regular expression of _isExtractionCommand
\* names.
ExtractionMethods ==
  {"innerText", "textContent", "isVisible", "isEnabled", "isChecked",
   "getAttribute", "count", "boundingBox"}

ErrNotAFunction(method) == <<"TypeError: ", method, " is not a function">>

\* The call of a property the locator wrapper does not have: the call
\* throws at once.
MissingMethodOp(method) ==
  [kind |-> "expr", deadline |-> FALSE, settles |-> TRUE,
   fails |-> {ErrNotAFunction(method)}, values |-> {}]

\* _createLocatorWrapper: every locator method runs under
\* controller.run(..., 5000).
LocatorWrapperOp(method, responds) ==
  [kind |-> "expr", deadline |-> TRUE, settles |-> TRUE,
   fails |-> {ErrOperation},
   values |-> IF method = "click" THEN {Undefined} ELSE {FromDocument}]

\* _createPublicAPIWrapper: goto, title and url call the page directly,
\* without a deadline; url is synchronous.
PublicAPIPageOp(method, responds) ==
  [kind |-> "expr", deadline |-> FALSE,
   settles |-> IF method = "url" THEN TRUE ELSE responds,
   fails |-> IF method = "url" THEN {} ELSE {ErrOperation},
   values |-> {method}]

\* The function _executePlaywrightCode builds with `new Function` names six
\* parameters, but its body is evaluated in the global scope of the host
\* process: an identifier that is none of the six resolves to the global of
\* that name, synchronously and without a deadline.
GlobalScopeOp(name) ==
  [kind |-> "expr", deadline |-> FALSE, settles |-> TRUE,
   fails |-> {}, values |-> {FromHost}]

\* _executePlaywrightCode: builds the function around the trimmed or
\* untrimmed code alike and awaits its promise; nothing bounds that await.
ExecutePlaywrightCode(code, responds) ==
  LET expr == Trim(code)[1] IN
  IF Len(Trim(code)) # 1 \/ expr = ExprSyntaxError
    THEN [kind |-> "expr", deadline |-> FALSE, settles |-> TRUE,
          fails |-> {<<"SyntaxError">>}, values |-> {}]
  ELSE IF LocatorMethod(expr) \in LocatorWrapperMethods
    THEN LocatorWrapperOp(LocatorMethod(expr), responds)
  ELSE IF LocatorMethod(expr) # Undefined
    THEN MissingMethodOp(LocatorMethod(expr))
  ELSE IF expr = ExprPageTitle THEN PublicAPIPageOp("title", responds)
  ELSE IF expr = ExprPageUrl THEN PublicAPIPageOp("url", responds)
  ELSE IF expr = ExprPageGoto THEN PublicAPIPageOp("goto", responds)
  ELSE IF expr = ExprProcessEnv THEN GlobalScopeOp("process")
  ELSE [kind |-> "expr", deadline |-> FALSE, settles |-> FALSE,
        fails |-> {}, values |-> {}]

\* _isExtractionCommand: the two regular expressions, on the trimmed code.
IsExtractionCommand(code) ==
  LET trimmedCode == Trim(code) IN
  /\ Len(trimmedCode) = 1
  /\ \/ LocatorMethod(trimmedCode[1]) \in ExtractionMethods
     \/ trimmedCode[1] \in {ExprPageTitle, ExprPageUrl}

\* --------------------------------------------------------------- commands
\* One record per call of an _execute* method: the promise the async method
\* returned (pc), what it did before its await, and what became of a
\* rejection (reaction).
Command(kind) ==
  [kind |-> kind,
   missing |-> FALSE,            \* the event came without locator / code
   noPages |-> FALSE,            \* no page was tracked when it was dispatched
   failure |-> NoError,          \* the failure its page operation ended with
   param |-> Absent,             \* locator / code the awaiting code closes over
   name |-> "",                  \* extraction kind the awaiting code closes over
   pc |-> "awaiting",            \* awaiting | fulfilled | rejected
   logId |-> 0,                  \* id returned by pushTemporaryCallLog, 0: none
   pageIndex |-> 0,              \* position, among the tracked pages, of the page
                                 \* an expression was given, 0: none
   resolveAttempted |-> FALSE,   \* frameForSelector was called
   op |-> NoOp,                  \* the page operation the method awaits
   opEntry |-> 0,                \* the log id held when the operation started
   value |-> Undefined,          \* the value the operation completed with
   version |-> 0,                \* the version of the document it completed on
   pushes |-> 0,                 \* results the command published
   err |-> NoError,              \* the error the promise rejected with
   handler |-> "void",           \* what the dispatcher attached: void | catch
   reaction |-> "none"]          \* none | pending | logged | unhandled

Reject(cmd, e) == [cmd EXCEPT !.pc = "rejected", !.err = e, !.reaction = "pending"]
Fulfil(cmd) == [cmd EXCEPT !.pc = "fulfilled"]
StartOperation(cmd, op, param, name) ==
  [cmd EXCEPT !.op = op, !.opEntry = cmd.logId, !.param = param, !.name = name]

\* _buildSyntheticAction: the switch over the action name.
BuildSyntheticAction(selector, actionName) ==
  IF actionName \in {"click", "dblclick"}
    THEN [threw |-> FALSE, err |-> NoError,
          action |-> [name |-> "click", selector |-> selector]]
  ELSE IF actionName \in {"fill", "press", "check", "uncheck"}
    THEN [threw |-> FALSE, err |-> NoError,
          action |-> [name |-> actionName, selector |-> selector]]
  ELSE IF actionName = "selectOption"
    THEN [threw |-> FALSE, err |-> NoError,
          action |-> [name |-> "select", selector |-> selector]]
  ELSE [threw |-> TRUE, err |-> ErrUnsupportedAction(actionName),
        action |-> [name |-> "", selector |-> selector]]

\* _executeUIAction up to its await: validation, page check, frame
\* resolution, synthetic action, call-log entry, start of performAction.
ExecuteUIAction(params, pgs, log, responds) ==
  LET cmd == Command("action") IN
  IF MissingText(params.locator)
    THEN [cmd |-> Reject(cmd, ErrLocatorRequired), log |-> log]
  ELSE IF Len(pgs) = 0
    THEN [cmd |-> Reject(cmd, ErrNoPagesAction), log |-> log]
  ELSE
    LET frame == FrameForSelector(pgs, params.locator.text)
        resolved == [cmd EXCEPT !.resolveAttempted = TRUE]
        built == BuildSyntheticAction(params.locator.text, params.action)
    IN IF frame.threw THEN [cmd |-> Reject(resolved, frame.err), log |-> log]
       ELSE IF built.threw THEN [cmd |-> Reject(resolved, built.err), log |-> log]
       ELSE LET pushed == PushTemporaryCallLog(log, [action |-> built.action])
            IN [cmd |-> StartOperation([resolved EXCEPT !.logId = Len(pushed)],
                                       PerformAction(responds),
                                       params.locator, params.action),
                log |-> pushed]

\* Variant of ExecuteUIExtraction: an extraction whose kind and selector
\* already have an entry reuses that entry instead of creating one.
ExecuteUIExtractionDeduplicating(params, pgs, log, responds) ==
  LET cmd == Command("extraction") IN
  IF MissingText(params.locator)
    THEN [cmd |-> Reject(cmd, ErrLocatorRequired), log |-> log]
  ELSE
    LET frame == FrameForSelector(pgs, params.locator.text)
        resolved == [cmd EXCEPT !.resolveAttempted = TRUE]
        same == {k \in DOMAIN log :
                   /\ log[k].title = "extract_" \o params.extraction
                   /\ log[k].selector = params.locator.text}
        pushed == IF same = {}
                  THEN PushTemporaryCallLog(log,
                         [action |-> [name |-> "extract_" \o params.extraction,
                                      selector |-> params.locator.text]])
                  ELSE log
        id == IF same = {} THEN Len(pushed) ELSE CHOOSE k \in same : TRUE
    IN IF frame.threw THEN [cmd |-> Reject(resolved, frame.err), log |-> log]
       ELSE [cmd |-> StartOperation([resolved EXCEPT !.logId = id],
                       PerformExtraction(params.extraction, responds),
                       params.locator, params.extraction),
             log |-> pushed]

\* Variant of ExecuteUIExtraction: _performExtraction is started before the
\* call-log entry is pushed.
ExecuteUIExtractionUnlogged(params, pgs, log, responds) ==
  LET cmd == Command("extraction") IN
  IF MissingText(params.locator)
    THEN [cmd |-> Reject(cmd, ErrLocatorRequired), log |-> log]
  ELSE
    LET frame == FrameForSelector(pgs, params.locator.text)
        resolved == [cmd EXCEPT !.resolveAttempted = TRUE]
    IN IF frame.threw THEN [cmd |-> Reject(resolved, frame.err), log |-> log]
       ELSE LET started == StartOperation(resolved,
                             PerformExtraction(params.extraction, responds),
                             params.locator, params.extraction)
                pushed == PushTemporaryCallLog(log,
                            [action |-> [name |-> "extract_" \o params.extraction,
                                         selector |-> params.locator.text]])
            IN [cmd |-> [started EXCEPT !.logId = Len(pushed)], log |-> pushed]

\* _executeUIExtraction up to its await: validation, frame resolution,
\* call-log entry, start of _performExtraction.
ExecuteUIExtraction(params, pgs, log, responds) ==
  LET cmd == Command("extraction") IN
  IF MissingText(params.locator)
    THEN [cmd |-> Reject(cmd, ErrLocatorRequired), log |-> log]
  ELSE
    LET frame == FrameForSelector(pgs, params.locator.text)
        resolved == [cmd EXCEPT !.resolveAttempted = TRUE]
    IN IF frame.threw THEN [cmd |-> Reject(resolved, frame.err), log |-> log]
       ELSE LET pushed == PushTemporaryCallLog(log,
                            [action |-> [name |-> "extract_" \o params.extraction,
                                         selector |-> params.locator.text]])
            IN [cmd |-> StartOperation([resolved EXCEPT !.logId = Len(pushed)],
                          PerformExtraction(params.extraction, responds),
                          params.locator, params.extraction),
                log |-> pushed]

\* Variant of ExecuteArbitraryCode: the expression runs on the page tracked
\* last instead of the one tracked first.
ExecuteArbitraryCodeOnLatest(params, pgs, log, responds) ==
  LET cmd == Command("code") IN
  IF MissingText(params.code)
    THEN [cmd |-> Reject(cmd, ErrCodeRequired), log |-> log]
  ELSE IF Len(pgs) = 0
    THEN [cmd |-> Reject(cmd, ErrNoPagesCode), log |-> log]
  ELSE LET pushed == PushTemporaryCallLog(log,
                       [action |-> [name |-> "execute_code", selector |-> <<>>]])
       IN [cmd |-> StartOperation([cmd EXCEPT !.logId = Len(pushed),
                                              !.pageIndex = Len(pgs)],
                     ExecutePlaywrightCode(params.code.text, responds),
                     params.code, "execute_code"),
           log |-> pushed]

\* _executeArbitraryCode up to its await: validation, first page
\* (`Array.from(pageAliases.keys())[0]`), call-log entry, start of
\* _executePlaywrightCode.
ExecuteArbitraryCode(params, pgs, log, responds) ==
  LET cmd == Command("code") IN
  IF MissingText(params.code)
    THEN [cmd |-> Reject(cmd, ErrCodeRequired), log |-> log]
  ELSE IF Len(pgs) = 0
    THEN [cmd |-> Reject(cmd, ErrNoPagesCode), log |-> log]
  ELSE LET pushed == PushTemporaryCallLog(log,
                       [action |-> [name |-> "execute_code", selector |-> <<>>]])
       IN [cmd |-> StartOperation([cmd EXCEPT !.logId = Len(pushed),
                                              !.pageIndex = 1],
                     ExecutePlaywrightCode(params.code.text, responds),
                     params.code, "execute_code"),
           log |-> pushed]

\* ---------------------------------------- the code after a command's await
\* Variant of SendExtractionResultToUI: the evaluation is awaited without the
\* .catch, so a failed delivery throws into the caller.
SendExtractionResultUnswallowed(pub, result, extraction, delivered) ==
  [published |-> Append(pub, [result |-> result, extraction |-> extraction,
                              delivered |-> delivered]),
   threw |-> ~delivered,
   err |-> IF delivered THEN NoError ELSE <<"Target page closed">>]

\* _sendExtractionResultToUI: evaluates playwrightExtractionResult(result,
\* extraction) on the control surface; a failed delivery is swallowed by the
\* .catch, so the call never throws into its caller.
SendExtractionResultToUI(pub, result, extraction, delivered) ==
  [published |-> Append(pub, [result |-> result, extraction |-> extraction,
                              delivered |-> delivered]),
   threw |-> FALSE, err |-> NoError]

\* Variant of UIActionContinuation: the catch records the error but does
\* not re-throw it.
UIActionContinuationSwallowing(cmd, log, pub, out, delivered) ==
  [cmd |-> Fulfil([cmd EXCEPT !.value = out.value]),
   log |-> UpdateTemporaryCallLog(log, cmd.logId,
                                  IF out.ok THEN "done" ELSE "error",
                                  IF out.ok THEN Undefined ELSE out.err),
   published |-> pub]

\* _executeUIAction after `await performAction(...)`.
UIActionContinuation(cmd, log, pub, out, delivered) ==
  IF out.ok
  THEN [cmd |-> Fulfil([cmd EXCEPT !.value = out.value]),
        log |-> UpdateTemporaryCallLog(log, cmd.logId, "done", Undefined),
        published |-> pub]
  ELSE [cmd |-> Reject(cmd, out.err),
        log |-> UpdateTemporaryCallLog(log, cmd.logId, "error", out.err),
        published |-> pub]

\* Variant of UIExtractionContinuation: the updates go to the newest entry
\* of the call log instead of the entry whose id the command holds.
UIExtractionContinuationOnLatest(cmd, log, pub, out, delivered) ==
  IF out.ok
  THEN LET done == UpdateTemporaryCallLog(log, Len(log), "done", out.value)
           sent == SendExtractionResultToUI(pub, out.value, cmd.name, delivered)
           after == [cmd EXCEPT !.value = out.value,
                                !.pushes = Len(sent.published) - Len(pub)]
       IN [cmd |-> Fulfil(after), log |-> done, published |-> sent.published]
  ELSE [cmd |-> Reject(cmd, out.err),
        log |-> UpdateTemporaryCallLog(log, Len(log), "error", out.err),
        published |-> pub]

\* _executeUIExtraction after `await this._performExtraction(...)`: the done
\* update and the push are inside the try whose catch sets error.
UIExtractionContinuation(cmd, log, pub, out, delivered) ==
  IF out.ok
  THEN LET done == UpdateTemporaryCallLog(log, cmd.logId, "done", out.value)
           sent == SendExtractionResultToUI(pub, out.value, cmd.name, delivered)
           after == [cmd EXCEPT !.value = out.value,
                                !.pushes = Len(sent.published) - Len(pub)]
       IN IF sent.threw
          THEN [cmd |-> Reject(after, sent.err),
                log |-> UpdateTemporaryCallLog(done, cmd.logId, "error", sent.err),
                published |-> sent.published]
          ELSE [cmd |-> Fulfil(after), log |-> done, published |-> sent.published]
  ELSE [cmd |-> Reject(cmd, out.err),
        log |-> UpdateTemporaryCallLog(log, cmd.logId, "error", out.err),
        published |-> pub]

\* _executeArbitraryCode after `await this._executePlaywrightCode(...)`;
\* _executePlaywrightCode wraps every failure in "Failed to execute code".
ArbitraryCodeContinuation(cmd, log, pub, out, delivered) ==
  IF out.ok
  THEN LET done == UpdateTemporaryCallLog(log, cmd.logId, "done", out.value)
           sent == IF out.value # Undefined
                   THEN SendExtractionResultToUI(pub, out.value,
                          IF IsExtractionCommand(cmd.param.text)
                          THEN "extraction" ELSE "action", delivered)
                   ELSE [published |-> pub, threw |-> FALSE, err |-> NoError]
           after == [cmd EXCEPT !.value = out.value,
                                !.pushes = Len(sent.published) - Len(pub)]
       IN IF sent.threw
          THEN [cmd |-> Reject(after, sent.err),
                log |-> UpdateTemporaryCallLog(done, cmd.logId, "error", sent.err),
                published |-> sent.published]
          ELSE [cmd |-> Fulfil(after), log |-> done, published |-> sent.published]
  ELSE LET e == ErrExecuteCode(cmd.param.text, out.err)
       IN [cmd |-> Reject(cmd, e),
           log |-> UpdateTemporaryCallLog(log, cmd.logId, "error", e),
           published |-> pub]

\* ------------------------------------------------------ code generation
\* languageSet(): the registered language generators, in registration order.
LanguageSet ==
  << [id |-> "playwright-test", highlighter |-> "javascript"],
     [id |-> "python", highlighter |-> "python"] >>

GeneratorIds == {LanguageSet[i].id : i \in DOMAIN LanguageSet}

\* recorderUtils.collapseActions: a record merges into the previous one when
\* both are fills of the same selector in the same frame; the later record's
\* fields win, the earlier startTime is kept and the earlier signals come
\* before the later ones.
RECURSIVE CollapseInto(_, _)
CollapseInto(result, rest) ==
  IF rest = <<>> THEN result
  ELSE LET action == Head(rest)
           last == IF result = <<>> THEN action ELSE result[Len(result)]
           shouldMerge == /\ result # <<>>
                          /\ last.name = action.name
                          /\ last.pageGuid = action.pageGuid
                          /\ action.name = "fill"
                          /\ last.selector = action.selector
       IN IF shouldMerge
          THEN CollapseInto([result EXCEPT ![Len(result)] =
                               [action EXCEPT !.startTime = last.startTime,
                                              !.signals = last.signals \o @]],
                            Tail(rest))
          ELSE CollapseInto(Append(result, action), Tail(rest))

\* Variant of CollapseActions: a record merges only with the record that
\* precedes it in the stream, and a record that took part in a merge takes
\* part in no other.
CollapseActionsPairwise(stream) ==
  LET RECURSIVE Pairs(_, _)
      Pairs(result, rest) ==
        IF rest = <<>> THEN result
        ELSE IF /\ Len(rest) >= 2
                /\ rest[1].name = rest[2].name
                /\ rest[1].pageGuid = rest[2].pageGuid
                /\ rest[2].name = "fill"
                /\ rest[1].selector = rest[2].selector
        THEN Pairs(Append(result,
                          [rest[2] EXCEPT !.startTime = rest[1].startTime,
                                          !.signals = rest[1].signals \o @]),
                   Tail(Tail(rest)))
        ELSE Pairs(Append(result, rest[1]), Tail(rest))
  IN Pairs(<<>>, stream)

CollapseActions(stream) == CollapseInto(<<>>, stream)

\* Variant of GenerateCode: the generator keeps state between calls, so its
\* text also depends on what the session did before the call.
GenerateCodeStateful(collapsed, languageGenerator, autoExpect) ==
  [header |-> <<languageGenerator.id, "header", autoExpect>>,
   footer |-> <<languageGenerator.id, "footer">>,
   text |-> <<languageGenerator.id, collapsed, autoExpect, lastDispatch.event>>,
   actionTexts |-> [i \in DOMAIN collapsed |->
                      <<languageGenerator.id, collapsed[i]>>]]

\* codegen generateCode: a pure function of the actions, the generator and
\* the options; the text is kept symbolic: the header, one fragment per
\* action and the footer.
GenerateCode(collapsed, languageGenerator, autoExpect) ==
  [header |-> <<languageGenerator.id, "header", autoExpect>>,
   footer |-> <<languageGenerator.id, "footer">>,
   text |-> <<languageGenerator.id, collapsed, autoExpect>>,
   actionTexts |-> [i \in DOMAIN collapsed |->
                      <<languageGenerator.id, collapsed[i]>>]]

\* Variant of GeneratedSources: only the first generator produces a Source.
GeneratedSourcesOfFirst(stream, autoExpect) ==
  [i \in {1} |->
     LET code == GenerateCode(CollapseActions(stream), LanguageSet[i], autoExpect)
     IN [isRecorded |-> TRUE, id |-> LanguageSet[i].id,
         language |-> LanguageSet[i].highlighter,
         text |-> code.text, header |-> code.header, footer |-> code.footer,
         actions |-> code.actionTexts,
         revealLine |-> Len(code.actionTexts) + 1]]

\* _updateActions: one Source per generator from the collapsed actions; the
\* source to reveal is the selected generator's, when a reveal is asked for.
\* revealLine is the last line of the text (`text.split("\n").length - 1`):
\* the header is line 0 and each action fragment is one line.
GeneratedSources(stream, autoExpect) ==
  [i \in DOMAIN LanguageSet |->
     LET code == GenerateCode(CollapseActions(stream), LanguageSet[i], autoExpect)
     IN [isRecorded |-> TRUE, id |-> LanguageSet[i].id,
         language |-> LanguageSet[i].highlighter,
         text |-> code.text, header |-> code.header, footer |-> code.footer,
         actions |-> code.actionTexts,
         revealLine |-> Len(code.actionTexts) + 1]]

RevealSourceId(sources, reveal, selectedId) ==
  IF reveal /\ \E i \in DOMAIN sources : sources[i].id = selectedId
  THEN selectedId ELSE Undefined

\* _pushAllSources and _revealSource: the calls of playwrightSetSources and
\* playwrightSelectSource (the latter only for a defined id); `calls` lists
\* the entry points the latest push called, in order.
PushedSurface(prev, user, recorded, revealId) ==
  [prev EXCEPT !.sources = user \o recorded,
               !.sourceId = IF revealId = Undefined THEN @ ELSE revealId,
               !.calls = <<"playwrightSetSources">>
                         \o (IF revealId = Undefined THEN <<>>
                             ELSE <<"playwrightSelectSource">>)]

\* A generator that throws for the actions it is given: the ids of the
\* broken generators are part of the environment.
GeneratorThrows(languageGenerator) == languageGenerator.id \in brokenGenerators

\* The first generator of languageSet() that throws, 0 when none does: the
\* loop of _updateActions has no try, so it ends there.
FirstThrowing ==
  LET throwing == {i \in DOMAIN LanguageSet : GeneratorThrows(LanguageSet[i])}
  IN IF throwing = {} THEN 0
     ELSE CHOOSE i \in throwing : \A j \in throwing : i <= j

UpdateActionsThrows == FirstThrowing # 0

\* ThrottledFile: setContent keeps the text as pending and arms the timer;
\* flush writes the pending text, if any, and forgets it.  A session without
\* an output file has no ThrottledFile (the ?. calls do nothing).
NoOutputFile == [configured |-> FALSE, pending |-> <<>>, written |-> <<>>]
NewThrottledFile == [configured |-> TRUE, pending |-> <<>>, written |-> <<>>]

SetContent(file, text) ==
  IF file.configured THEN [file EXCEPT !.pending = <<text>>] ELSE file

Flush(file) ==
  IF file.configured /\ file.pending # <<>>
  THEN [file EXCEPT !.written = file.pending, !.pending = <<>>]
  ELSE file

\* The setContent calls of one run of the loop of _updateActions: the text
\* of the generator whose id is the primary generator id, when the loop
\* reaches it.
MirroredFile(file, sources, primaryId) ==
  LET reached == {i \in DOMAIN sources :
                    /\ FirstThrowing = 0 \/ i < FirstThrowing
                    /\ sources[i].id = primaryId}
  IN IF reached = {} THEN file
     ELSE SetContent(file, sources[CHOOSE i \in reached : TRUE].text)

\* ------------------------------------------------------------------ inputs
PageIds == {1, 2}

LocatorInputs == {Absent, Str(<<>>), Str(<<Blank>>), Str(<<"#a">>)}
\* The action names the control surface offers and PerformActionParams
\* declares.
PerformActionNames ==
  {"click", "dblclick", "fill", "press", "check", "uncheck", "selectOption",
   "hover", "scroll"}
ActionInputs == {"click", "hover"}
ExtractionInputs == {"innerText", "outerHTML"}
CodeInputs ==
  {Absent, Str(<<>>), Str(<<Blank, Blank>>), Str(<<Blank, ExprPageTitle>>)}
  \cup {Str(<<e>>) : e \in Expressions \ {ExprPageTitle}}

\* The inputs that carry no locator or code: absent, empty, blanks only.
MissingInputs == {Absent, Str(<<>>), Str(<<Blank>>), Str(<<Blank, Blank>>)}

KnownEvents ==
  {"clear", "fileChanged", "setAutoExpect", "setMode", "resume", "pause",
   "step", "highlightRequested", "performAction", "performExtraction",
   "executeArbitraryCode"}
\* The event kinds the EventData type of the control surface declares.
EventDataKinds ==
  {"clear", "resume", "step", "pause", "setMode", "highlightRequested",
   "languageChanged", "performAction", "performExtraction",
   "executeArbitraryCode"}
EventInputs == KnownEvents \cup EventDataKinds \cup {"bogus"}

ModeInputs == {"recording"}
UserSource == [isRecorded |-> FALSE, id |-> "user.js", language |-> "javascript",
               text |-> <<"user">>, header |-> <<>>, footer |-> <<>>,
               actions |-> <<>>, revealLine |-> 0]
FileIdInputs == GeneratorIds \cup {"user.js", "nofile"}
OrganicActions(t) ==
  {[pageGuid |-> 1, name |-> "fill", selector |-> "#a", text |-> "x",
    signals |-> <<>>, startTime |-> t]}

HostInputs == {"/home/a", "/home/b"}
GestureInputs == {<<>>, <<TRUE>>, <<FALSE>>}
\* The actions the Recorder reports: fills and clicks on two selectors of
\* two pages.
RecordedActions(t) ==
  {[pageGuid |-> g, name |-> n, selector |-> sel, text |-> "x",
    signals |-> <<>>, startTime |-> t] :
     g \in PageIds, n \in {"fill", "click"}, sel \in {"#a", "#b"}}

SdkLanguageInputs == {"javascript", "python", "csharp"}
LanguageInputs == {Undefined, "python"}
SignalInputs == {[pageGuid |-> g, signal |-> "navigation"] : g \in PageIds}

\* determinePrimaryGeneratorId: the id of the first generator whose
\* highlighter is the SDK language, the SDK language itself when none is.
DeterminePrimaryGeneratorId(sdkLanguage) ==
  LET matching == {i \in DOMAIN LanguageSet :
                     LanguageSet[i].highlighter = sdkLanguage}
  IN IF matching = {} THEN sdkLanguage
     ELSE LanguageSet[CHOOSE i \in matching : \A j \in matching : i <= j].id

\* The constructor's choice of the primary generator id:
\* TEST_INSPECTOR_LANGUAGE || params.language || determinePrimaryGeneratorId.
PrimaryGeneratorId(envLanguage, language, sdkLanguage) ==
  IF envLanguage # Undefined THEN envLanguage
  ELSE IF language # Undefined THEN language
  ELSE DeterminePrimaryGeneratorId(sdkLanguage)

\* ProgrammaticRecorderApp.run: the generator whose id is params.language,
\* playwright-test when there is none.
ProgrammaticGenerator(language) ==
  LET matching == {i \in DOMAIN LanguageSet : LanguageSet[i].id = language}
      fallback == {i \in DOMAIN LanguageSet : LanguageSet[i].id = "playwright-test"}
  IN IF matching # {} THEN LanguageSet[CHOOSE i \in matching : TRUE]
     ELSE LanguageSet[CHOOSE i \in fallback : TRUE]

\* The state ProgrammaticRecorderApp.run leaves when it returns: the
\* generator is chosen, no action was seen, nothing was emitted.
ProgrammaticRun(language) ==
  [languageGenerator |-> ProgrammaticGenerator(language),
   lastAction |-> <<>>, emitted |-> <<>>]

\* useToast before the first toast: an empty list, no timer armed.
NoToasts == [toasts |-> <<>>, timers |-> {}, now |-> 0, added |-> 0]

\* ------------------------------------------------------------ initial state
\* The state after _init: no command yet, the Sources generated from the
\* empty ActionStream and pushed with the selected generator revealed.
ConstructApp(primary, tracked, outputFileName, hostState) ==
  /\ pages = tracked
  /\ callLog = <<>>
  /\ cmds = <<>>
  /\ published = <<>>
  /\ consoleErrors = <<>>
  /\ lastDispatch = [event |-> "", threw |-> FALSE, err |-> NoError]
  /\ actions = <<>>
  /\ userSources = <<>>
  /\ primaryGeneratorId = primary
  /\ selectedGeneratorId = primary
  /\ generateAutoExpect = <<>>
  /\ recorderSources = GeneratedSources(<<>>, <<>>)
  /\ recorderCalls = <<>>
  /\ surface = PushedSurface([sources |-> <<>>, sourceId |-> Undefined,
                              calls |-> <<>>],
                             <<>>, GeneratedSources(<<>>, <<>>),
                             RevealSourceId(GeneratedSources(<<>>, <<>>), TRUE,
                                            primary))
  /\ brokenGenerators = {}
  /\ outputFile = MirroredFile(IF outputFileName THEN NewThrottledFile
                                                 ELSE NoOutputFile,
                               GeneratedSources(<<>>, <<>>), primary)
  /\ lifecycle = "open"
  /\ dom = [text |-> "text", version |-> 0]
  /\ host = hostState
  /\ deliveries = <<>>
  /\ clock = 0
  /\ shows = <<>>
  /\ toastUi = NoToasts

\* A session shown in a window: programmatic mode is not running, its state
\* stays as ProgrammaticRecorderApp.run would start from.
Construct(primary, tracked, outputFileName, hostState) ==
  /\ ConstructApp(primary, tracked, outputFileName, hostState)
  /\ programmatic = ProgrammaticRun(Undefined)
  /\ marker = TRUE

Init == Construct(LanguageSet[1].id, <<>>, FALSE, "/home/a")

Dispatched(event, outcome) ==
  [event |-> event, threw |-> outcome.threw, err |-> outcome.err]

\* ------------------------------------------- _handleUIEvent: the commands
\* What _handleUIEvent attaches to the promise of a command: the action and
\* extraction promises are discarded with void, the arbitrary-code promise
\* gets a catch that logs.
DispatchHandler(event) ==
  IF event = "executeArbitraryCode" THEN "catch" ELSE "void"

\* Variant of LaunchCommand: the method is not async, so what it throws
\* before its await is thrown by _handleUIEvent itself.
LaunchCommandRaising(event, input, started) ==
  /\ cmds' = Append(cmds,
        [started.cmd EXCEPT !.handler = DispatchHandler(event),
                            !.missing = input \in MissingInputs,
                            !.noPages = (pages = <<>>),
                            !.reaction = "none"])
  /\ callLog' = started.log
  /\ lastDispatch' = Dispatched(event,
        IF started.cmd.pc = "rejected" THEN Thrown(started.cmd.err) ELSE Returned)
  /\ recorderCalls' = <<>>
  /\ UNCHANGED <<environmentVars, outputFile,
                 pages, published, consoleErrors, sessionVars, surface>>

\* The branch of a command event: the method runs up to its await, the
\* promise is kept with its handler and _handleUIEvent returns.
LaunchCommand(event, input, started) ==
  /\ cmds' = Append(cmds, [started.cmd EXCEPT !.handler = DispatchHandler(event),
                                              !.missing = input \in MissingInputs,
                                              !.noPages = (pages = <<>>)])
  /\ callLog' = started.log
  /\ lastDispatch' = Dispatched(event, Returned)
  /\ recorderCalls' = <<>>
  /\ UNCHANGED <<environmentVars, outputFile,
                 pages, published, consoleErrors, sessionVars, surface>>

PerformActionEvent(params, responds) ==
  LaunchCommand("performAction", params.locator,
                ExecuteUIAction(params, pages, callLog, responds))

PerformExtractionEvent(params, responds) ==
  LaunchCommand("performExtraction", params.locator,
                ExecuteUIExtraction(params, pages, callLog, responds))

ExecuteArbitraryCodeEvent(params, responds) ==
  LaunchCommand("executeArbitraryCode", params.code,
                ExecuteArbitraryCode(params, pages, callLog, responds))

\* Variant of Settle: the command that ended is also recorded, as an action
\* appended to the ActionStream.
SettleRecording(i, out, after) ==
  /\ cmds' = [cmds EXCEPT ![i] = [after.cmd EXCEPT !.failure = out.err,
                                                   !.version = dom.version]]
  /\ callLog' = after.log
  /\ published' = after.published
  /\ actions' = Append(actions,
                       [pageGuid |-> 1, name |-> cmds[i].kind, selector |-> "#a",
                        text |-> "x", signals |-> <<>>,
                        startTime |-> Len(actions) + 1])
  /\ UNCHANGED <<environmentVars, outputFile,
                 pages, consoleErrors, lastDispatch, recorderSources,
                 userSources, primaryGeneratorId, selectedGeneratorId,
                 generateAutoExpect, recorderCalls, surface>>

\* The continuation of command i when the operation it awaits ends.
Settle(i, out, after) ==
  /\ cmds' = [cmds EXCEPT ![i] = [after.cmd EXCEPT !.failure = out.err,
                                                   !.version = dom.version]]
  /\ callLog' = after.log
  /\ published' = after.published
  /\ UNCHANGED <<environmentVars, outputFile,
                 pages, consoleErrors, lastDispatch, sessionVars,
                 recorderCalls, surface>>

UIActionSettled(i, out, delivered) ==
  /\ cmds[i].kind = "action" /\ cmds[i].pc = "awaiting"
  /\ out \in Outcomes(cmds[i].op)
  /\ Settle(i, out, UIActionContinuation(cmds[i], callLog, published, out, delivered))

UIExtractionSettled(i, out, delivered) ==
  /\ cmds[i].kind = "extraction" /\ cmds[i].pc = "awaiting"
  /\ out \in Outcomes(cmds[i].op)
  /\ Settle(i, out, UIExtractionContinuation(cmds[i], callLog, published, out, delivered))

ArbitraryCodeSettled(i, out, delivered) ==
  /\ cmds[i].kind = "code" /\ cmds[i].pc = "awaiting"
  /\ out \in Outcomes(cmds[i].op)
  /\ Settle(i, out, ArbitraryCodeContinuation(cmds[i], callLog, published, out, delivered))

\* The reaction to the rejection of command i, run after the code that
\* rejected it has returned: the catch of _handleUIEvent logs it, a promise
\* discarded with void has no handler and the rejection is unhandled.
RejectionReaction(i) ==
  /\ cmds[i].reaction = "pending"
  /\ IF cmds[i].handler = "catch"
     THEN /\ cmds' = [cmds EXCEPT ![i].reaction = "logged"]
          /\ consoleErrors' = Append(consoleErrors,
                 <<"Failed to execute arbitrary code:">> \o cmds[i].err)
     ELSE /\ cmds' = [cmds EXCEPT ![i].reaction = "unhandled"]
          /\ UNCHANGED consoleErrors
  /\ UNCHANGED <<environmentVars, outputFile,
                 pages, callLog, published, lastDispatch, sessionVars,
                 recorderCalls, surface>>

\* The Recorder starts and stops tracking a page of the inspected context.
TrackPage(p) ==
  /\ \A k \in DOMAIN pages : pages[k] # p
  /\ pages' = Append(pages, p)
  /\ UNCHANGED <<environmentVars, outputFile,
                 callLog, cmds, published, consoleErrors, lastDispatch,
                 sessionVars, recorderCalls, surface>>

UntrackPage(p) ==
  /\ \E k \in DOMAIN pages : pages[k] = p
  /\ pages' = SelectSeq(pages, LAMBDA q : q # p)
  /\ UNCHANGED <<environmentVars, outputFile,
                 callLog, cmds, published, consoleErrors, lastDispatch,
                 sessionVars, recorderCalls, surface>>

\* ------------------------------------- _handleUIEvent: the session events
\* Variant of UpdateActions: the text handed to the output file is that of
\* the selected generator instead of the primary one.
UpdateActionsMirroringSelected(stream, autoExpect, reveal) ==
  LET sources == GeneratedSources(stream, autoExpect) IN
  /\ outputFile' = MirroredFile(outputFile, sources, selectedGeneratorId)
  /\ IF UpdateActionsThrows
     THEN UNCHANGED <<recorderSources, surface>>
     ELSE /\ recorderSources' = sources
          /\ surface' = PushedSurface(surface, userSources, sources,
                            RevealSourceId(sources, reveal, selectedGeneratorId))

\* _updateActions followed by the handler's return.
UpdateActions(stream, autoExpect, reveal) ==
  LET sources == GeneratedSources(stream, autoExpect) IN
  /\ outputFile' = MirroredFile(outputFile, sources, primaryGeneratorId)
  /\ IF UpdateActionsThrows
     THEN UNCHANGED <<recorderSources, surface>>
     ELSE /\ recorderSources' = sources
          /\ surface' = PushedSurface(surface, userSources, sources,
                            RevealSourceId(sources, reveal, selectedGeneratorId))

\* Variant of HandleClear: the stream is emptied and the Recorder cleared,
\* but the Sources are not regenerated.
HandleClearKeepingSources ==
  /\ actions' = <<>>
  /\ recorderCalls' = << <<"clear">> >>
  /\ lastDispatch' = Dispatched("clear", Returned)
  /\ UNCHANGED <<environmentVars, outputFile, executorVars, recorderSources,
                 surface, userSources, primaryGeneratorId, selectedGeneratorId,
                 generateAutoExpect>>

\* Variant of HandleClear: the clear also selects the primary generator
\* again.
HandleClearResettingSelection ==
  /\ actions' = <<>>
  /\ UpdateActions(<<>>, generateAutoExpect, TRUE)
  /\ recorderCalls' = IF UpdateActionsThrows THEN <<>> ELSE << <<"clear">> >>
  /\ lastDispatch' = Dispatched("clear", IF UpdateActionsThrows
                                         THEN Thrown(ErrGenerator) ELSE Returned)
  /\ selectedGeneratorId' = primaryGeneratorId
  /\ UNCHANGED <<environmentVars,
                 executorVars, userSources, primaryGeneratorId,
                 generateAutoExpect>>

HandleClear ==
  /\ actions' = <<>>
  /\ UpdateActions(<<>>, generateAutoExpect, TRUE)
  /\ recorderCalls' = IF UpdateActionsThrows THEN <<>> ELSE << <<"clear">> >>
  /\ lastDispatch' = Dispatched("clear", IF UpdateActionsThrows
                                         THEN Thrown(ErrGenerator) ELSE Returned)
  /\ UNCHANGED <<environmentVars,
                 executorVars, userSources, primaryGeneratorId,
                 selectedGeneratorId, generateAutoExpect>>

\* Variant of HandleFileChanged: the isRecorded test is missing, so any
\* source that is found becomes the selected generator.
HandleFileChangedSelectingAny(fileId) ==
  LET all == recorderSources \o userSources
      found == {i \in DOMAIN all : all[i].id = fileId}
      source == all[CHOOSE i \in found : \A j \in found : i <= j]
  IN /\ IF found = {}
        THEN /\ recorderCalls' = <<>>
             /\ UNCHANGED selectedGeneratorId
        ELSE /\ selectedGeneratorId' = source.id
             /\ recorderCalls' = << <<"setLanguage", source.language>> >>
     /\ lastDispatch' = Dispatched("fileChanged", Returned)
     /\ UNCHANGED <<environmentVars, outputFile,
                    executorVars, actions, recorderSources, userSources,
                    primaryGeneratorId, generateAutoExpect, surface>>

HandleFileChanged(fileId) ==
  LET all == recorderSources \o userSources
      found == {i \in DOMAIN all : all[i].id = fileId}
      source == all[CHOOSE i \in found : \A j \in found : i <= j]
  IN /\ IF found = {}
        THEN /\ recorderCalls' = <<>>
             /\ UNCHANGED selectedGeneratorId
        ELSE /\ selectedGeneratorId' =
                  IF source.isRecorded THEN source.id ELSE selectedGeneratorId
             /\ recorderCalls' = << <<"setLanguage", source.language>> >>
     /\ lastDispatch' = Dispatched("fileChanged", Returned)
     /\ UNCHANGED <<environmentVars, outputFile,
                    executorVars, actions, recorderSources, userSources,
                    primaryGeneratorId, generateAutoExpect, surface>>

\* Variant of HandleSetAutoExpect: the regeneration asks for a reveal.
HandleSetAutoExpectRevealing(autoExpect) ==
  /\ generateAutoExpect' = <<autoExpect>>
  /\ UpdateActions(actions, <<autoExpect>>, TRUE)
  /\ recorderCalls' = <<>>
  /\ lastDispatch' = Dispatched("setAutoExpect", Returned)
  /\ UNCHANGED <<environmentVars,
                 executorVars, actions, userSources, primaryGeneratorId,
                 selectedGeneratorId>>

HandleSetAutoExpect(autoExpect) ==
  /\ generateAutoExpect' = <<autoExpect>>
  /\ UpdateActions(actions, <<autoExpect>>, FALSE)
  /\ recorderCalls' = <<>>
  /\ lastDispatch' = Dispatched("setAutoExpect", IF UpdateActionsThrows
                                                 THEN Thrown(ErrGenerator)
                                                 ELSE Returned)
  /\ UNCHANGED <<environmentVars,
                 executorVars, actions, userSources, primaryGeneratorId,
                 selectedGeneratorId>>

\* setMode, resume, pause, step and highlightRequested only forward to the
\* Recorder.
Forward(event, calls) ==
  /\ recorderCalls' = calls
  /\ lastDispatch' = Dispatched(event, Returned)
  /\ UNCHANGED <<environmentVars, outputFile,
                 executorVars, sessionVars, surface>>

HandleSetMode(mode) == Forward("setMode", << <<"setMode", mode>> >>)
HandleResume == Forward("resume", << <<"resume">> >>)
HandlePause == Forward("pause", << <<"pause">> >>)
HandleStep == Forward("step", << <<"step">> >>)

HandleHighlightRequested(selector, ariaTemplate) ==
  Forward("highlightRequested",
          (IF selector THEN << <<"setHighlightedSelector">> >> ELSE <<>>)
          \o (IF ariaTemplate THEN << <<"setHighlightedAriaTemplate">> >> ELSE <<>>))

\* Variant of HandleUnknownEvent: the final throw is missing and an event
\* that matched no branch is ignored.
HandleUnknownEventIgnored(event) ==
  /\ event \notin KnownEvents
  /\ lastDispatch' = Dispatched(event, Returned)
  /\ UNCHANGED <<environmentVars, outputFile,
                 executorVars, sessionVars, recorderCalls, surface>>

\* The last statement of _handleUIEvent: no branch matched the event.
HandleUnknownEvent(event) ==
  /\ event \notin KnownEvents
  /\ lastDispatch' = Dispatched(event, Thrown(ErrUnknownEvent(event)))
  /\ UNCHANGED <<environmentVars, outputFile,
                 executorVars, sessionVars, recorderCalls, surface>>

\* ------------------------------------------------ the Recorder's events
\* _onActionAdded
ActionAdded(action) ==
  /\ actions' = Append(actions, action)
  /\ UpdateActions(Append(actions, action), generateAutoExpect, TRUE)
  /\ UNCHANGED <<environmentVars,
                 executorVars, lastDispatch, userSources, primaryGeneratorId,
                 selectedGeneratorId, generateAutoExpect, recorderCalls>>

\* _onUserSourcesChanged
UserSourcesChanged(sources, pausedSourceId) ==
  /\ IF sources = <<>> /\ userSources = <<>>
     THEN UNCHANGED <<userSources, surface>>
     ELSE /\ userSources' = sources
          /\ surface' = PushedSurface(surface, sources, recorderSources,
                                      pausedSourceId)
  /\ UNCHANGED <<environmentVars, outputFile,
                 executorVars, lastDispatch, actions, recorderSources,
                 primaryGeneratorId, selectedGeneratorId, generateAutoExpect,
                 recorderCalls>>

\* Variant of SignalAdded: the signal is attached but the Sources are not
\* regenerated.
SignalAddedSilently(signal) ==
  LET matching == {i \in DOMAIN actions : actions[i].pageGuid = signal.pageGuid}
      lastAction == CHOOSE i \in matching : \A j \in matching : j <= i
  IN /\ actions' = IF matching = {} THEN actions
                   ELSE [actions EXCEPT ![lastAction].signals =
                                           Append(@, signal.signal)]
     /\ UNCHANGED <<environmentVars, outputFile, executorVars, lastDispatch,
                    recorderSources, surface, userSources, primaryGeneratorId,
                    selectedGeneratorId, generateAutoExpect, recorderCalls>>

\* Variant of SignalAdded: the signal is attached to the latest action of
\* the stream, whatever its page.
SignalAddedToLatest(signal) ==
  LET stream == IF actions = <<>> THEN actions
                ELSE [actions EXCEPT ![Len(actions)].signals =
                                        Append(@, signal.signal)]
  IN /\ actions' = stream
     /\ UpdateActions(stream, generateAutoExpect, FALSE)
     /\ UNCHANGED <<environmentVars, executorVars, lastDispatch, userSources,
                    primaryGeneratorId, selectedGeneratorId,
                    generateAutoExpect, recorderCalls>>

\* _onSignalAdded: the signal is attached to the latest action of its page,
\* if there is one, and the Sources are regenerated without a reveal.
SignalAdded(signal) ==
  LET matching == {i \in DOMAIN actions : actions[i].pageGuid = signal.pageGuid}
      lastAction == CHOOSE i \in matching : \A j \in matching : j <= i
      stream == IF matching = {} THEN actions
                ELSE [actions EXCEPT ![lastAction].signals =
                                        Append(@, signal.signal)]
  IN /\ actions' = stream
     /\ UpdateActions(stream, generateAutoExpect, FALSE)
     /\ UNCHANGED <<environmentVars, executorVars, lastDispatch, userSources,
                    primaryGeneratorId, selectedGeneratorId,
                    generateAutoExpect, recorderCalls>>

\* _onContextClosed: the inspected context closed; the output file is
\* flushed and the close of the recorder window's context is requested.
ContextClosed ==
  /\ lifecycle = "open"
  /\ outputFile' = Flush(outputFile)
  /\ lifecycle' = "closing"
  /\ UNCHANGED <<executorVars, sessionVars, lastDispatch, recorderCalls,
                 surface, dom, brokenGenerators, host, deliveries, clock,
                 programmatic,
                 marker, shows, toastUi>>

\* The 'close' handler of the recorder window's page, registered with once:
\* the Recorder is closed, the window's context is closed and the session
\* is removed from the inspected context.
PageClosed ==
  /\ lifecycle # "discarded"
  /\ recorderCalls' = << <<"close">> >>
  /\ lifecycle' = "discarded"
  /\ marker' = FALSE
  /\ UNCHANGED <<executorVars, sessionVars, lastDispatch, surface,
                 outputFile, dom, brokenGenerators, host, deliveries, clock,
                 programmatic, shows, toastUi>>

\* The timer of the ThrottledFile fires: the pending text is written.
ThrottledWrite ==
  /\ outputFile.pending # <<>>
  /\ outputFile' = Flush(outputFile)
  /\ UNCHANGED <<environmentVars, executorVars, sessionVars, lastDispatch,
                 recorderCalls, surface>>

\* A language generator starts to throw.
BreakGenerator(id) ==
  /\ id \notin brokenGenerators
  /\ brokenGenerators' = brokenGenerators \cup {id}
  /\ UNCHANGED <<executorVars, sessionVars, lastDispatch, recorderCalls,
                 surface, outputFile, lifecycle, dom, host, deliveries,
                 clock, programmatic,
                 marker, shows, toastUi>>

\* Time passes.
Tick ==
  /\ clock' = clock + 1
  /\ UNCHANGED <<executorVars, sessionVars, lastDispatch, recorderCalls,
                 surface, outputFile, lifecycle, dom, brokenGenerators, host,
                 deliveries, programmatic,
                 marker, shows, toastUi>>

\* The inspected page changes its document.
MutatePage(text) ==
  /\ text # dom.text
  /\ dom' = [text |-> text, version |-> dom.version + 1]
  /\ UNCHANGED <<executorVars, sessionVars, lastDispatch, recorderCalls,
                 surface, outputFile, lifecycle, brokenGenerators, host,
                 deliveries, clock, programmatic,
                 marker, shows, toastUi>>

\* ------------------------------------------- the Recorder's event pushes
\* A call made on the control-surface page: its promise is pending until the
\* page answers, and what becomes of a rejection depends on the handler the
\* caller attached.
Evaluation(entryPoint) ==
  [call |-> entryPoint, handler |-> "catch", outcome |-> "pending"]

\* this._page.bringToFront(): the promise is neither awaited nor caught.
BringToFront ==
  [call |-> "bringToFront", handler |-> "none", outcome |-> "pending"]

Push(calls) ==
  /\ deliveries' = deliveries \o calls
  /\ UNCHANGED <<executorVars, sessionVars, lastDispatch, recorderCalls,
                 surface, outputFile, lifecycle, dom, brokenGenerators, host,
                 clock, programmatic,
                 marker, shows, toastUi>>

\* _onPageNavigated, _onModeChanged, _onPausedStateChanged, _onCallLogsUpdated
PageNavigated(url) == Push(<<Evaluation("playwrightSetPageURL")>>)
ModeChanged(mode) == Push(<<Evaluation("playwrightSetMode")>>)
PausedStateChanged(paused) == Push(<<Evaluation("playwrightSetPaused")>>)
CallLogsUpdated == Push(<<Evaluation("playwrightUpdateLogs")>>)

\* Variant of ElementPicked: the surface is brought to front for every pick.
ElementPickedToFront(userGesture) ==
  Push(<<BringToFront, Evaluation("playwrightElementPicked")>>)

\* _onElementPicked: the surface is brought to front for a user gesture,
\* then the picked element is pushed.  userGesture is optional: <<>> when
\* the Recorder passed none, <<b>> when it passed b.
ElementPicked(userGesture) ==
  Push((IF userGesture = <<TRUE>> THEN <<BringToFront>> ELSE <<>>)
       \o <<Evaluation("playwrightElementPicked")>>)

\* The control-surface page answers call k, or fails to: a rejection is
\* swallowed by the .catch of the caller; a promise without handler ends as
\* an unhandled rejection.
DeliverySettled(k, delivered) ==
  /\ deliveries[k].outcome = "pending"
  /\ deliveries' = [deliveries EXCEPT ![k].outcome =
                      IF delivered THEN "delivered"
                      ELSE IF deliveries[k].handler = "catch" THEN "swallowed"
                      ELSE "unhandled"]
  /\ UNCHANGED <<executorVars, sessionVars, lastDispatch, recorderCalls,
                 surface, outputFile, lifecycle, dom, brokenGenerators, host,
                 clock, programmatic,
                 marker, shows, toastUi>>

\* ------------------------------------- show and showInspectorNoReply
\* A call of show or showInspectorNoReply for the inspected context: where
\* it stands (pc), whether the window it launched is open, and whether the
\* 'close' handler of the window's page is registered.
\* pc: disabled (PW_CODEGEN_NO_INSPECTOR) | forContext | programmatic |
\*     returned (already shown) | launching | loading | init | navigating |
\*     shown | failed
ShowCall(entry, recorderMode) ==
  [entry |-> entry, recorderMode |-> recorderMode, pc |-> "forContext",
   window |-> "none", closeHandler |-> FALSE]

ShowStep(k, call, mark) ==
  /\ shows' = [shows EXCEPT ![k] = call]
  /\ marker' = mark
  /\ UNCHANGED <<executorVars, sessionVars, lastDispatch, recorderCalls,
                 surface, outputFile, lifecycle, dom, brokenGenerators, host,
                 deliveries, clock, programmatic, toastUi>>

\* show(context, params) and showInspectorNoReply(context) up to the await
\* of Recorder.forContext.
ShowCalled(entry, noInspector, recorderMode) ==
  /\ entry = "showInspectorNoReply" => recorderMode = Undefined
  /\ shows' = Append(shows,
                     [ShowCall(entry, recorderMode) EXCEPT
                        !.pc = IF noInspector THEN "disabled" ELSE "forContext"])
  /\ UNCHANGED <<executorVars, sessionVars, lastDispatch, recorderCalls,
                 surface, outputFile, lifecycle, dom, brokenGenerators, host,
                 deliveries, clock, programmatic, marker, toastUi>>

\* Variant of ForContextSettled: _show tests the marker but does not set it
\* before its first await.
ForContextSettledMarkingLate(k, ok) ==
  /\ shows[k].pc = "forContext"
  /\ ShowStep(k, [shows[k] EXCEPT !.pc =
                    IF ~ok THEN "failed"
                    ELSE IF shows[k].recorderMode = "api" THEN "programmatic"
                    ELSE IF marker THEN "returned" ELSE "launching"],
              marker)

\* Recorder.forContext settles; show then runs the programmatic mode or
\* _show, showInspectorNoReply runs _show.  _show up to its first await:
\* the marker is tested and set without an await in between.
ForContextSettled(k, ok) ==
  /\ shows[k].pc = "forContext"
  /\ IF ~ok
     THEN ShowStep(k, [shows[k] EXCEPT !.pc = "failed"], marker)
     ELSE IF shows[k].recorderMode = "api"
     THEN ShowStep(k, [shows[k] EXCEPT !.pc = "programmatic"], marker)
     ELSE IF marker
     THEN ShowStep(k, [shows[k] EXCEPT !.pc = "returned"], marker)
     ELSE ShowStep(k, [shows[k] EXCEPT !.pc = "launching"], TRUE)

\* launchApp settles: the recorder window is open, or _show rejects.
LaunchSettled(k, ok) ==
  /\ shows[k].pc = "launching"
  /\ ShowStep(k, IF ok THEN [shows[k] EXCEPT !.pc = "loading", !.window = "open"]
                 ELSE [shows[k] EXCEPT !.pc = "failed"],
              marker)

\* controller.run(_loadDefaultContextAsIs) settles; on success the
\* RecorderApp is constructed and _init starts.
LoadSettled(k, ok) ==
  /\ shows[k].pc = "loading"
  /\ ok => shows[k].window = "open"
  /\ ShowStep(k, [shows[k] EXCEPT !.pc = IF ok THEN "init" ELSE "failed"], marker)

\* _init up to the registration of the page's 'close' handler (the route and
\* the binding are installed first), then the navigation starts.
InitBound(k, ok) ==
  /\ shows[k].pc = "init"
  /\ ok => shows[k].window = "open"
  /\ ShowStep(k, IF ok THEN [shows[k] EXCEPT !.pc = "navigating",
                                             !.closeHandler = TRUE]
                 ELSE [shows[k] EXCEPT !.pc = "failed"],
              marker)

\* The navigation of _init settles; on success the state is pushed, the
\* listeners are wired and _show returns.
InitSettled(k, ok) ==
  /\ shows[k].pc = "navigating"
  /\ ok => shows[k].window = "open"
  /\ ShowStep(k, [shows[k] EXCEPT !.pc = IF ok THEN "shown" ELSE "failed"], marker)

\* The recorder window's page closes: the 'close' handler, if it is
\* registered by then, removes the marker.
WindowClosed(k) ==
  /\ shows[k].window = "open"
  /\ ShowStep(k, [shows[k] EXCEPT !.window = "closed"],
              IF shows[k].closeHandler THEN FALSE ELSE marker)

\* ------------------------------------------------------------- toasts
\* removeToast: the list without the toasts of the id.
RemoveToast(list, id) == SelectSeq(list, LAMBDA toast : toast.id # id)

\* Variant of ArmTimers: the test for a permanent toast is missing.
ArmTimersForAll(list, now) ==
  {[id |-> list[i].id,
    due |-> now + (IF list[i].duration \in {<<>>, <<0>>} THEN DefaultToastMs
                   ELSE list[i].duration[1])] : i \in DOMAIN list}

\* The effect of ToastContainer, run after every render with a new list:
\* one setTimeout per toast whose duration is not 0, after the duration, or
\* after 5000 ms when it has none.  The function the effect returns from
\* inside forEach is discarded, so no timer is ever cleared.
ArmTimers(list, now) ==
  {[id |-> list[i].id,
    due |-> now + (IF list[i].duration = <<>> THEN DefaultToastMs
                   ELSE list[i].duration[1])] :
     i \in {j \in DOMAIN list : list[j].duration # <<0>>}}

\* setToasts with a new list, the render and the effect that follow it.
SetToasts(list) ==
  /\ toastUi' = [toastUi EXCEPT !.toasts = list,
                                !.timers = @ \cup ArmTimers(list, toastUi.now)]
  /\ UNCHANGED <<executorVars, sessionVars, lastDispatch, recorderCalls,
                 surface, outputFile, lifecycle, dom, brokenGenerators, host,
                 deliveries, clock, programmatic, marker, shows>>

\* addToast(type, message, duration): duration is <<>> when not given.  The
\* id is made of the time and a random part: ids are distinct.
AddToast(duration) ==
  /\ toastUi' = [toastUi EXCEPT
        !.toasts = Append(@, [id |-> toastUi.added + 1, duration |-> duration,
                              createdAt |-> toastUi.now]),
        !.timers = @ \cup ArmTimers(Append(toastUi.toasts,
                                           [id |-> toastUi.added + 1,
                                            duration |-> duration,
                                            createdAt |-> toastUi.now]),
                                    toastUi.now),
        !.added = @ + 1]
  /\ UNCHANGED <<executorVars, sessionVars, lastDispatch, recorderCalls,
                 surface, outputFile, lifecycle, dom, brokenGenerators, host,
                 deliveries, clock, programmatic, marker, shows>>

\* A click on a toast that is shown.
ToastClicked(id) ==
  /\ \E i \in DOMAIN toastUi.toasts : toastUi.toasts[i].id = id
  /\ SetToasts(RemoveToast(toastUi.toasts, id))

\* A timer that is due fires: onRemoveToast(id), whether or not the toast
\* is still in the list.
ToastTimerFired(timer) ==
  /\ timer \in toastUi.timers
  /\ timer.due <= toastUi.now
  /\ toastUi' = [toastUi EXCEPT
        !.toasts = RemoveToast(@, timer.id),
        !.timers = (@ \ {timer})
                     \cup ArmTimers(RemoveToast(toastUi.toasts, timer.id),
                                    toastUi.now)]
  /\ UNCHANGED <<executorVars, sessionVars, lastDispatch, recorderCalls,
                 surface, outputFile, lifecycle, dom, brokenGenerators, host,
                 deliveries, clock, programmatic, marker, shows>>

\* Time passes on the control surface.
ToastTimePasses ==
  /\ toastUi' = [toastUi EXCEPT !.now = @ + ToastTickMs]
  /\ UNCHANGED <<executorVars, sessionVars, lastDispatch, recorderCalls,
                 surface, outputFile, lifecycle, dom, brokenGenerators, host,
                 deliveries, clock, programmatic, marker, shows>>

\* ------------------------------------------------- programmatic mode
\* recorderUtils.shouldMergeAction: the predicate collapseActions merges by.
ShouldMergeAction(action, lastAction) ==
  /\ lastAction.name = action.name
  /\ lastAction.pageGuid = action.pageGuid
  /\ action.name = "fill"
  /\ lastAction.selector = action.selector

\* findPageByGuid: the page of the inspected context with the guid, if any.
FindPageByGuid(guid) ==
  LET found == {k \in DOMAIN pages : pages[k] = guid}
  IN IF found = {} THEN 0 ELSE guid

\* An event emitted on the inspected context.
RecorderEventOf(event, data, page, code) ==
  [event |-> event, data |-> data, page |-> page, code |-> code]

\* Variant of ProgrammaticActionAdded: lastAction is never assigned.
ProgrammaticActionAddedForgetful(action) ==
  LET page == FindPageByGuid(action.pageGuid)
      code == GenerateCode(<<action>>, programmatic.languageGenerator, <<>>)
  IN /\ IF page = 0
        THEN UNCHANGED programmatic
        ELSE programmatic' =
               [programmatic EXCEPT
                  !.emitted = Append(@, RecorderEventOf("actionAdded", action,
                                                        page, code.actionTexts))]
     /\ UNCHANGED <<executorVars, sessionVars, lastDispatch, recorderCalls,
                    surface, outputFile, lifecycle, dom, brokenGenerators,
                    host, deliveries, clock,
                    marker, shows, toastUi>>

\* The ActionAdded listener of ProgrammaticRecorderApp.run.
ProgrammaticActionAdded(action) ==
  LET page == FindPageByGuid(action.pageGuid)
      code == GenerateCode(<<action>>, programmatic.languageGenerator, <<>>)
      event == IF \/ programmatic.lastAction = <<>>
                  \/ ~ShouldMergeAction(action, programmatic.lastAction[1])
               THEN "actionAdded" ELSE "actionUpdated"
  IN /\ IF page = 0
        THEN UNCHANGED programmatic
        ELSE programmatic' =
               [programmatic EXCEPT
                  !.emitted = Append(@, RecorderEventOf(event, action, page,
                                                        code.actionTexts)),
                  !.lastAction = <<action>>]
     /\ UNCHANGED <<executorVars, sessionVars, lastDispatch, recorderCalls,
                    surface, outputFile, lifecycle, dom, brokenGenerators,
                    host, deliveries, clock,
                    marker, shows, toastUi>>

\* The SignalAdded listener of ProgrammaticRecorderApp.run: the event is
\* emitted whether or not the page is found, with no code.
ProgrammaticSignalAdded(signal) ==
  /\ programmatic' =
       [programmatic EXCEPT
          !.emitted = Append(@, RecorderEventOf("signalAdded", signal,
                                                FindPageByGuid(signal.pageGuid),
                                                <<>>))]
  /\ UNCHANGED <<executorVars, sessionVars, lastDispatch, recorderCalls,
                 surface, outputFile, lifecycle, dom, brokenGenerators,
                 host, deliveries, clock,
                 marker, shows, toastUi>>

\* --------------------------------------------------------- specifications
\* The Command Executor: commands are issued while earlier ones are still
\* awaiting, pages come and go.
Next ==
  \/ \E l \in LocatorInputs, a \in ActionInputs, r \in BOOLEAN :
        /\ Len(cmds) < MaxCmds
        /\ PerformActionEvent([locator |-> l, action |-> a], r)
  \/ \E l \in LocatorInputs, e \in ExtractionInputs, r \in BOOLEAN :
        /\ Len(cmds) < MaxCmds
        /\ PerformExtractionEvent([locator |-> l, extraction |-> e], r)
  \/ \E c \in CodeInputs, r \in BOOLEAN :
        /\ Len(cmds) < MaxCmds
        /\ ExecuteArbitraryCodeEvent([code |-> c], r)
  \/ \E i \in DOMAIN cmds, d \in BOOLEAN :
        \E out \in Outcomes(cmds[i].op) : UIActionSettled(i, out, d)
  \/ \E i \in DOMAIN cmds, d \in BOOLEAN :
        \E out \in Outcomes(cmds[i].op) : UIExtractionSettled(i, out, d)
  \/ \E i \in DOMAIN cmds, d \in BOOLEAN :
        \E out \in Outcomes(cmds[i].op) : ArbitraryCodeSettled(i, out, d)
  \/ \E i \in DOMAIN cmds : RejectionReaction(i)
  \/ \E p \in PageIds : TrackPage(p)
  \/ \E p \in PageIds : UntrackPage(p)

Spec == Init /\ [][Next]_vars

\* The same machine under the scheduling the event loop guarantees: a
\* continuation whose operation has ended, and the reaction to a rejection,
\* are eventually run.
SettleStep(i) ==
  /\ i \in DOMAIN cmds
  /\ \E d \in BOOLEAN : \E out \in Outcomes(cmds[i].op) :
       \/ UIActionSettled(i, out, d)
       \/ UIExtractionSettled(i, out, d)
       \/ ArbitraryCodeSettled(i, out, d)

ReactionStep(i) == i \in DOMAIN cmds /\ RejectionReaction(i)

Fairness ==
  \A i \in 1..MaxCmds : WF_vars(SettleStep(i)) /\ WF_vars(ReactionStep(i))

FairSpec == Init /\ [][Next]_vars /\ Fairness

\* The dispatcher with every event kind: a session that tracks one page and
\* records organic actions while the control surface sends any event. Of
\* the commands only performAction is sent with an input and executes; the
\* execution of the other two is the subject of Spec.
DispatchInit == Construct(LanguageSet[1].id, <<1>>, FALSE, "/home/a")

DispatchNext ==
  \/ HandleClear
  \/ \E f \in FileIdInputs : HandleFileChanged(f)
  \/ \E v \in BOOLEAN : HandleSetAutoExpect(v)
  \/ \E m \in ModeInputs : HandleSetMode(m)
  \/ HandleResume
  \/ HandlePause
  \/ HandleStep
  \/ \E sel \in BOOLEAN : HandleHighlightRequested(sel, ~sel)
  \/ \E e \in EventInputs : HandleUnknownEvent(e)
  \/ /\ Len(cmds) < MaxDispatchCmds
     /\ PerformActionEvent([locator |-> Str(<<"#a">>), action |-> "click"], TRUE)
  \/ /\ Len(cmds) < MaxDispatchCmds
     /\ PerformExtractionEvent([locator |-> Absent, extraction |-> "innerText"],
                               TRUE)
  \/ /\ Len(cmds) < MaxDispatchCmds
     /\ ExecuteArbitraryCodeEvent([code |-> Str(<<Blank>>)], TRUE)
  \/ \E i \in DOMAIN cmds, d \in BOOLEAN :
        \E out \in Outcomes(cmds[i].op) : UIActionSettled(i, out, d)
  \/ \E i \in DOMAIN cmds : RejectionReaction(i)
  \/ \E a \in OrganicActions(Len(actions) + 1) :
        /\ Len(actions) < MaxDispatchActions
        /\ ActionAdded(a)

DispatchSpec == DispatchInit /\ [][DispatchNext]_vars

\* The session between construction and teardown: the Recorder's events and
\* the control-surface events that touch the ActionStream and the Sources,
\* for every primary generator the constructor can choose, with and without
\* an output file.  No event is delivered once a close is under way.
SessionInit ==
  \E sdkLanguage \in SdkLanguageInputs, language \in LanguageInputs,
     outputFileName \in BOOLEAN :
       Construct(PrimaryGeneratorId(Undefined, language, sdkLanguage), <<1>>,
                 outputFileName, "/home/a")

SignalCount ==
  LET RECURSIVE Sum(_)
      Sum(i) == IF i = 0 THEN 0 ELSE Len(actions[i].signals) + Sum(i - 1)
  IN Sum(Len(actions))

SessionNext ==
  \/ lifecycle = "open" /\ HandleClear
  \/ \E f \in FileIdInputs : lifecycle = "open" /\ HandleFileChanged(f)
  \/ \E v \in BOOLEAN : lifecycle = "open" /\ HandleSetAutoExpect(v)
  \/ \E a \in OrganicActions(Len(actions) + 1) :
        /\ lifecycle = "open"
        /\ Len(actions) < MaxSessionActions
        /\ ActionAdded(a)
  \/ \E signal \in SignalInputs :
        /\ lifecycle = "open"
        /\ SignalCount < MaxSignals
        /\ SignalAdded(signal)
  \/ \E sources \in {<<>>, <<UserSource>>} :
        /\ lifecycle = "open"
        /\ UserSourcesChanged(sources, IF sources = <<>> THEN Undefined
                                                        ELSE UserSource.id)
  \/ ContextClosed
  \/ PageClosed
  \/ ThrottledWrite

SessionSpec == SessionInit /\ [][SessionNext]_vars

\* The session when language generators start to throw.
FaultInit == Construct(LanguageSet[1].id, <<1>>, TRUE, "/home/a")

FaultNext ==
  \/ \E id \in GeneratorIds : BreakGenerator(id)
  \/ HandleClear
  \/ \E v \in BOOLEAN : HandleSetAutoExpect(v)
  \/ \E a \in OrganicActions(Len(actions) + 1) :
        /\ Len(actions) < MaxSessionActions
        /\ ActionAdded(a)
  \/ \E signal \in SignalInputs :
        /\ SignalCount < MaxSignals
        /\ SignalAdded(signal)
  \/ ThrottledWrite

FaultSpec == FaultInit /\ [][FaultNext]_vars

\* The ad hoc commands on one tracked page whose document changes: valid
\* commands of the three kinds, issued while earlier ones are awaiting.
AdHocInit == Construct(LanguageSet[1].id, <<1>>, FALSE, "/home/a")

AdHocNext ==
  \/ /\ Len(cmds) < MaxAdHocCmds
     /\ PerformActionEvent([locator |-> Str(<<"#a">>), action |-> "click"], TRUE)
  \/ /\ Len(cmds) < MaxAdHocCmds
     /\ PerformExtractionEvent([locator |-> Str(<<"#a">>),
                                extraction |-> "innerText"], TRUE)
  \/ /\ Len(cmds) < MaxAdHocCmds
     /\ ExecuteArbitraryCodeEvent([code |-> Str(<<ExprLocatorInnerText>>)], TRUE)
  \/ \E i \in DOMAIN cmds, d \in BOOLEAN :
        \E out \in Outcomes(cmds[i].op) : UIActionSettled(i, out, d)
  \/ \E i \in DOMAIN cmds, d \in BOOLEAN :
        \E out \in Outcomes(cmds[i].op) : UIExtractionSettled(i, out, d)
  \/ \E i \in DOMAIN cmds, d \in BOOLEAN :
        \E out \in Outcomes(cmds[i].op) : ArbitraryCodeSettled(i, out, d)
  \/ \E i \in DOMAIN cmds : RejectionReaction(i)
  \/ \E text \in QueryValues :
        /\ dom.version < MaxMutations
        /\ MutatePage(text)

AdHocSpec == AdHocInit /\ [][AdHocNext]_vars

\* The arbitrary expressions of one tracked page in a host process whose
\* state differs from session to session.
ScopeCodeInputs ==
  {ExprLocatorInnerText, ExprPageTitle, ExprProcessEnv, ExprLocatorCount}

ScopeInit ==
  \E hostState \in HostInputs :
     Construct(LanguageSet[1].id, <<1>>, FALSE, hostState)

ScopeNext ==
  \/ \E c \in ScopeCodeInputs :
        /\ Len(cmds) < MaxScopeCmds
        /\ ExecuteArbitraryCodeEvent([code |-> Str(<<c>>)], TRUE)
  \/ \E i \in DOMAIN cmds, d \in BOOLEAN :
        \E out \in Outcomes(cmds[i].op) : ArbitraryCodeSettled(i, out, d)
  \/ \E i \in DOMAIN cmds : RejectionReaction(i)
  \/ \E text \in QueryValues :
        /\ dom.version < MaxMutations
        /\ MutatePage(text)

ScopeSpec == ScopeInit /\ [][ScopeNext]_vars

\* The ad hoc commands of a session that is torn down while they are
\* awaiting: the control surface sends events only while its page is open,
\* the operations on the inspected page end whenever they end, and nothing
\* is delivered to a control surface whose page is closed.
TeardownInit == Construct(LanguageSet[1].id, <<1>>, FALSE, "/home/a")

TeardownNext ==
  \/ /\ lifecycle = "open" /\ Len(cmds) < MaxAdHocCmds
     /\ PerformActionEvent([locator |-> Str(<<"#a">>), action |-> "click"], TRUE)
  \/ /\ lifecycle = "open" /\ Len(cmds) < MaxAdHocCmds
     /\ PerformExtractionEvent([locator |-> Str(<<"#a">>),
                                extraction |-> "innerText"], TRUE)
  \/ /\ lifecycle = "open" /\ Len(cmds) < MaxAdHocCmds
     /\ ExecuteArbitraryCodeEvent([code |-> Str(<<ExprLocatorInnerText>>)], TRUE)
  \/ \E i \in DOMAIN cmds, d \in BOOLEAN :
        \E out \in Outcomes(cmds[i].op) :
           /\ lifecycle = "discarded" => ~d
           /\ UIActionSettled(i, out, d)
  \/ \E i \in DOMAIN cmds, d \in BOOLEAN :
        \E out \in Outcomes(cmds[i].op) :
           /\ lifecycle = "discarded" => ~d
           /\ UIExtractionSettled(i, out, d)
  \/ \E i \in DOMAIN cmds, d \in BOOLEAN :
        \E out \in Outcomes(cmds[i].op) :
           /\ lifecycle = "discarded" => ~d
           /\ ArbitraryCodeSettled(i, out, d)
  \/ \E i \in DOMAIN cmds : RejectionReaction(i)
  \/ ContextClosed
  \/ PageClosed

TeardownSpec == TeardownInit /\ [][TeardownNext]_vars

\* The outbound pushes: the Recorder's events that are pushed to the control
\* surface and the result of an extraction command, each delivered or not.
PushInit == Construct(LanguageSet[1].id, <<1>>, FALSE, "/home/a")

PushNext ==
  \/ Len(deliveries) < MaxPushes /\ PageNavigated("u")
  \/ \E m \in ModeInputs : Len(deliveries) < MaxPushes /\ ModeChanged(m)
  \/ \E paused \in BOOLEAN :
        Len(deliveries) < MaxPushes /\ PausedStateChanged(paused)
  \/ Len(deliveries) < MaxPushes /\ CallLogsUpdated
  \/ \E userGesture \in GestureInputs :
        /\ Len(deliveries) + (IF userGesture = <<TRUE>> THEN 1 ELSE 0) < MaxPushes
        /\ ElementPicked(userGesture)
  \/ \E k \in DOMAIN deliveries, delivered \in BOOLEAN :
        DeliverySettled(k, delivered)
  \/ /\ Len(cmds) < MaxPushCmds
     /\ PerformExtractionEvent([locator |-> Str(<<"#a">>),
                                extraction |-> "innerText"], TRUE)
  \/ \E i \in DOMAIN cmds, d \in BOOLEAN :
        \E out \in Outcomes(cmds[i].op) : UIExtractionSettled(i, out, d)
  \/ \E i \in DOMAIN cmds : RejectionReaction(i)

PushSpec == PushInit /\ [][PushNext]_vars

\* The regenerations over every ActionStream of fills and clicks up to a
\* length: the stream grows, is regenerated for a changed option without
\* growing, and is cleared.
CollapseInit == Construct(LanguageSet[1].id, <<1>>, FALSE, "/home/a")

CollapseNext ==
  \/ \E a \in RecordedActions(Len(actions) + 1) :
        /\ Len(actions) < MaxStreamLen
        /\ ActionAdded(a)
  \/ \E v \in BOOLEAN : HandleSetAutoExpect(v)
  \/ HandleClear

CollapseSpec == CollapseInit /\ [][CollapseNext]_vars

\* The ad hoc commands while time passes: the entries of the call log are
\* created and completed at different times.
TimingInit == Construct(LanguageSet[1].id, <<1>>, FALSE, "/home/a")

TimingNext ==
  \/ /\ Len(cmds) < MaxTimedCmds
     /\ PerformActionEvent([locator |-> Str(<<"#a">>), action |-> "click"], TRUE)
  \/ /\ Len(cmds) < MaxTimedCmds
     /\ PerformExtractionEvent([locator |-> Str(<<"#a">>),
                                extraction |-> "innerText"], TRUE)
  \/ /\ Len(cmds) < MaxTimedCmds
     /\ ExecuteArbitraryCodeEvent([code |-> Str(<<ExprLocatorInnerText>>)], TRUE)
  \/ \E i \in DOMAIN cmds :
        \E out \in Outcomes(cmds[i].op) : UIActionSettled(i, out, TRUE)
  \/ \E i \in DOMAIN cmds :
        \E out \in Outcomes(cmds[i].op) : UIExtractionSettled(i, out, TRUE)
  \/ \E i \in DOMAIN cmds :
        \E out \in Outcomes(cmds[i].op) : ArbitraryCodeSettled(i, out, TRUE)
  \/ clock < MaxTicks /\ Tick

TimingSpec == TimingInit /\ [][TimingNext]_vars

\* Programmatic mode: the Recorder reports actions and signals of the pages
\* of the inspected context and of a page that is gone, for every language
\* parameter.
ProgrammaticLanguageInputs == {Undefined, "python", "bogus"}

ProgrammaticInit ==
  \E language \in ProgrammaticLanguageInputs :
     /\ ConstructApp(LanguageSet[1].id, <<1>>, FALSE, "/home/a")
     /\ programmatic = ProgrammaticRun(language)
     /\ marker = FALSE

ProgrammaticNext ==
  \/ \E a \in RecordedActions(Len(programmatic.emitted) + 1) :
        /\ Len(programmatic.emitted) < MaxEmitted
        /\ ProgrammaticActionAdded(a)
  \/ \E signal \in SignalInputs :
        /\ Len(programmatic.emitted) < MaxEmitted
        /\ ProgrammaticSignalAdded(signal)
  \/ \E p \in PageIds : TrackPage(p)
  \/ \E p \in PageIds : UntrackPage(p)

ProgrammaticSpec == ProgrammaticInit /\ [][ProgrammaticNext]_vars

\* ================================================================== claims
\* A recording session that also runs ad hoc commands: the Recorder reports
\* actions and signals, the control surface clears, changes options and
\* forwards, and valid commands of the three kinds end in every way.
RecordingInit == Construct(LanguageSet[1].id, <<1>>, FALSE, "/home/a")

RecordingNext ==
  \/ \E a \in OrganicActions(Len(actions) + 1) :
        /\ Len(actions) < MaxRecordingActions
        /\ ActionAdded(a)
  \/ \E signal \in SignalInputs :
        /\ SignalCount < MaxSignals
        /\ SignalAdded(signal)
  \/ HandleClear
  \/ \E v \in BOOLEAN : HandleSetAutoExpect(v)
  \/ \E f \in FileIdInputs : HandleFileChanged(f)
  \/ \E m \in ModeInputs : HandleSetMode(m)
  \/ /\ Len(cmds) < MaxRecordingCmds
     /\ PerformActionEvent([locator |-> Str(<<"#a">>), action |-> "click"], TRUE)
  \/ /\ Len(cmds) < MaxRecordingCmds
     /\ PerformExtractionEvent([locator |-> Str(<<"#a">>),
                                extraction |-> "innerText"], TRUE)
  \/ /\ Len(cmds) < MaxRecordingCmds
     /\ ExecuteArbitraryCodeEvent([code |-> Str(<<ExprLocatorClick>>)], TRUE)
  \/ \E i \in DOMAIN cmds : \E out \in Outcomes(cmds[i].op) :
        UIActionSettled(i, out, TRUE)
  \/ \E i \in DOMAIN cmds : \E out \in Outcomes(cmds[i].op) :
        UIExtractionSettled(i, out, TRUE)
  \/ \E i \in DOMAIN cmds : \E out \in Outcomes(cmds[i].op) :
        ArbitraryCodeSettled(i, out, TRUE)
  \/ \E i \in DOMAIN cmds : RejectionReaction(i)

RecordingSpec == RecordingInit /\ [][RecordingNext]_vars

\* The signals of a session that records on two pages: actions of both
\* pages are reported in any order and signals of either page arrive at any
\* time, also before the first action of their page.
SignalInit == Construct(LanguageSet[1].id, <<1, 2>>, FALSE, "/home/a")

SignalNext ==
  \/ \E a \in RecordedActions(Len(actions) + 1) :
        /\ Len(actions) < MaxSignalStream
        /\ ActionAdded(a)
  \/ \E signal \in SignalInputs :
        /\ SignalCount < MaxSignals
        /\ SignalAdded(signal)
  \/ HandleClear

SignalSpec == SignalInit /\ [][SignalNext]_vars

\* The element picks: the Recorder reports picks with and without a user
\* gesture, and the control-surface page answers each call or fails to.
PickInit == Construct(LanguageSet[1].id, <<1>>, FALSE, "/home/a")

PickCount ==
  Cardinality({k \in DOMAIN deliveries :
                 deliveries[k].call = "playwrightElementPicked"})

PickNext ==
  \/ \E userGesture \in GestureInputs :
        /\ PickCount < MaxPicks
        /\ ElementPicked(userGesture)
  \/ \E k \in DOMAIN deliveries, delivered \in BOOLEAN :
        DeliverySettled(k, delivered)
  \/ \E m \in ModeInputs : Len(deliveries) < MaxPicks /\ ModeChanged(m)

PickSpec == PickInit /\ [][PickNext]_vars

\* The calls of show and showInspectorNoReply for one inspected context,
\* in any interleaving, with every await ending either way and the window
\* closing at any time.
ShowInit ==
  /\ ConstructApp(LanguageSet[1].id, <<1>>, FALSE, "/home/a")
  /\ programmatic = ProgrammaticRun(Undefined)
  /\ marker = FALSE

ShowNext ==
  \/ \E entry \in {"show", "showInspectorNoReply"}, noInspector \in BOOLEAN,
        recorderMode \in {Undefined, "api"} :
        /\ Len(shows) < MaxShows
        /\ ShowCalled(entry, noInspector, recorderMode)
  \/ \E k \in DOMAIN shows, ok \in BOOLEAN : ForContextSettled(k, ok)
  \/ \E k \in DOMAIN shows, ok \in BOOLEAN : LaunchSettled(k, ok)
  \/ \E k \in DOMAIN shows, ok \in BOOLEAN : LoadSettled(k, ok)
  \/ \E k \in DOMAIN shows, ok \in BOOLEAN : InitBound(k, ok)
  \/ \E k \in DOMAIN shows, ok \in BOOLEAN : InitSettled(k, ok)
  \/ \E k \in DOMAIN shows : WindowClosed(k)

ShowSpec == ShowInit /\ [][ShowNext]_vars

\* The toast list of the control surface: toasts are added with and without
\* a duration, clicked away, and removed by their timers as time passes.
\* Toasts are added while their first timer is due within the time the
\* model covers.
ToastDurationInputs == {<<>>, <<0>>, <<ToastTickMs>>}

ToastInit == Construct(LanguageSet[1].id, <<1>>, FALSE, "/home/a")

ToastNext ==
  \/ \E duration \in ToastDurationInputs :
        /\ toastUi.added < MaxToasts
        /\ toastUi.now + DefaultToastMs <= MaxToastTicks * ToastTickMs
        /\ AddToast(duration)
  \/ \E id \in 1..MaxToasts : ToastClicked(id)
  \/ \E timer \in toastUi.timers : ToastTimerFired(timer)
  \/ /\ toastUi.now < MaxToastTicks * ToastTickMs
     /\ ToastTimePasses

ToastSpec == ToastInit /\ [][ToastNext]_vars

\* The same list with the scheduling of the browser: time passes, and a
\* timer that is due fires.
ToastFairness ==
  /\ WF_vars(toastUi.now < MaxToastTicks * ToastTickMs /\ ToastTimePasses)
  /\ WF_vars(\E timer \in toastUi.timers : ToastTimerFired(timer))

ToastFairSpec == ToastSpec /\ ToastFairness

ValidationErrors == {ErrLocatorRequired, ErrCodeRequired}
NoPagesErrors == {ErrNoPagesAction, ErrNoPagesCode, ErrNoPagesFrame}
CommandEvents == {"performAction", "performExtraction", "executeArbitraryCode"}

\* C1: every failure of a performAction, performExtraction or
\* executeArbitraryCode command is caught at the dispatch boundary and
\* logged: a rejected command has a handler attached by _handleUIEvent and
\* its rejection never ends unhandled.
C1_FailuresCaughtAtDispatch ==
  \A i \in DOMAIN cmds :
    cmds[i].pc = "rejected" =>
      /\ cmds[i].handler = "catch"
      /\ cmds[i].reaction \in {"pending", "logged"}

\* C2: every call-log entry receives at most one terminal update: an entry
\* in progress has had none, a done or error entry has had exactly one.
C2_AtMostOneTerminalUpdate ==
  \A k \in DOMAIN callLog :
    /\ callLog[k].updates <= 1
    /\ callLog[k].status \in Terminal <=> callLog[k].updates = 1

\* C2 witness: an extraction is done and the delivery of its result to the
\* control surface failed.
C2_DoneWithFailedDelivery ==
  \E i \in DOMAIN cmds :
    /\ cmds[i].kind = "extraction" /\ cmds[i].pc = "fulfilled"
    /\ callLog[cmds[i].logId].status = "done"
    /\ \E k \in DOMAIN published : ~published[k].delivered

\* C3: a command whose locator or code is absent, empty or blank never
\* creates a call-log entry: it holds no log id and the call log has exactly
\* the entries of the other commands.
C3_MissingInputNoEntry ==
  /\ \A i \in DOMAIN cmds : cmds[i].missing => cmds[i].logId = 0
  /\ Len(callLog) = Cardinality({i \in DOMAIN cmds : ~cmds[i].missing /\ cmds[i].logId # 0})

\* C3 witness: with a page tracked, a command of each kind was refused for
\* its missing input while the call log is still empty.
C3_RefusedWithPageTracked ==
  /\ pages # <<>>
  /\ callLog = <<>>
  /\ \E i \in DOMAIN cmds :
       cmds[i].missing /\ ~cmds[i].noPages /\ cmds[i].kind = "code"
  /\ \E i \in DOMAIN cmds :
       cmds[i].missing /\ ~cmds[i].noPages /\ cmds[i].kind # "code"

C5_ClaimedEvents ==
  {"clear", "fileChanged", "setAutoExpect", "setMode", "resume", "pause",
   "step", "highlightRequested", "performAction", "performExtraction",
   "executeArbitraryCode"}

C5_UnknownRaises ==
  /\ lastDispatch.event \notin C5_ClaimedEvents \cup {""} =>
       /\ lastDispatch.threw
       /\ lastDispatch.err = ErrUnknownEvent(lastDispatch.event)
  /\ lastDispatch.event \in C5_ClaimedEvents => ~lastDispatch.threw
  /\ \A i \in DOMAIN cmds, e \in EventInputs :
       /\ cmds[i].err # ErrUnknownEvent(e)
       /\ cmds[i].logId # 0 => callLog[cmds[i].logId].error # ErrUnknownEvent(e)
  /\ \A k \in DOMAIN consoleErrors, e \in EventInputs :
       consoleErrors[k] # <<"Failed to execute arbitrary code:">> \o ErrUnknownEvent(e)

C5_UnknownChangesNothing ==
  (lastDispatch' # lastDispatch /\ lastDispatch'.threw) =>
     UNCHANGED <<sessionVars, executorVars, recorderCalls, surface>>

C5_UnknownEventFailsLoudly ==
  []C5_UnknownRaises /\ [][C5_UnknownChangesNothing]_vars

\* C5 witness: an unknown event was just refused in a session that holds a
\* recorded action, a changed option and a failed command.
C5_RefusedInLiveSession ==
  /\ lastDispatch.threw /\ lastDispatch.event = "languageChanged"
  /\ actions # <<>> /\ generateAutoExpect = <<TRUE>>
  /\ \E i \in DOMAIN cmds : cmds[i].pc = "rejected" /\ cmds[i].failure = ErrTimeout

\* C6: every call-log entry created in progress eventually becomes done or
\* error.
C6_EveryEntryTerminates ==
  \A k \in 1..MaxCmds :
    (k \in DOMAIN callLog /\ callLog[k].status = "in-progress")
      ~> (k \in DOMAIN callLog /\ callLog[k].status \in Terminal)

\* C7: when the page operation of a command fails or times out, the
\* command's entry is in error with the failure's message (wrapped by
\* _executePlaywrightCode for an expression) and the command's promise is
\* rejected with that same error.
C7_FailureRecordedAndRaised ==
  \A i \in DOMAIN cmds :
    cmds[i].failure # NoError =>
      LET e == IF cmds[i].kind = "code"
               THEN ErrExecuteCode(cmds[i].param.text, cmds[i].failure)
               ELSE cmds[i].failure
      IN /\ cmds[i].logId \in DOMAIN callLog
         /\ callLog[cmds[i].logId].status = "error"
         /\ callLog[cmds[i].logId].error = e
         /\ cmds[i].pc = "rejected" /\ cmds[i].err = e
         /\ cmds[i].reaction # "none"

\* C7 witness: an action timed out, an extraction failed and an expression
\* timed out, each with its entry in error.
C7_FailuresOfAllKinds ==
  /\ \E i \in DOMAIN cmds :
       cmds[i].kind = "action" /\ cmds[i].failure = ErrTimeout
       /\ callLog[cmds[i].logId].status = "error"
  /\ \E i \in DOMAIN cmds :
       cmds[i].kind # "action" /\ cmds[i].failure = ErrOperation
       /\ callLog[cmds[i].logId].status = "error"

\* C8: a page operation is started only by a command that already holds
\* the id of its own call-log entry.
C8_EntryBeforeOperation ==
  \A i \in DOMAIN cmds :
    cmds[i].op.kind # "none" =>
      /\ cmds[i].opEntry # 0
      /\ cmds[i].opEntry = cmds[i].logId
      /\ cmds[i].opEntry \in DOMAIN callLog

\* C8 witness: a frame query and an expression are both awaited, each with
\* its entry in progress.
C8_OperationsAwaitedWithEntries ==
  /\ \E i \in DOMAIN cmds :
       cmds[i].op.kind = "query" /\ cmds[i].pc = "awaiting"
       /\ callLog[cmds[i].logId].status = "in-progress"
  /\ \E i \in DOMAIN cmds :
       cmds[i].op.kind = "expr" /\ cmds[i].pc = "awaiting"
       /\ callLog[cmds[i].logId].status = "in-progress"

\* C9: with no page tracked, a performAction and a performExtraction with a
\* locator fail with a 'no pages available' error before frame resolution is
\* attempted and before a call-log entry is created.
C9_NoPagesBeforeResolution ==
  \A i \in DOMAIN cmds :
    (cmds[i].kind \in {"action", "extraction"} /\ ~cmds[i].missing /\ cmds[i].noPages) =>
      /\ cmds[i].pc = "rejected"
      /\ cmds[i].err \in NoPagesErrors
      /\ cmds[i].logId = 0
      /\ ~cmds[i].resolveAttempted

\* C10: a fulfilled command has published a result exactly when its value
\* is not undefined, and then exactly once.
C10_PublishedIffValue ==
  \A i \in DOMAIN cmds :
    cmds[i].pc = "fulfilled" =>
      /\ cmds[i].pushes \in {0, 1}
      /\ cmds[i].pushes = 1 <=> cmds[i].value # Undefined

\* C11: every result published to the control surface carries the origin
\* 'extraction' or 'action' as its tag, whichever command produced it.
C11_OriginTags == {"extraction", "action"}

C11_PublishedTagIsOrigin ==
  \A k \in DOMAIN published : published[k].extraction \in C11_OriginTags

\* C12: ad hoc commands are never deduplicated: every command that passed
\* validation and resolution has a call-log entry of its own, so N commands
\* make N entries, and two identical extractions that completed on the same
\* version of the document are both done with the same value.
C12_OneEntryPerCommand ==
  /\ Len(callLog) = Cardinality({i \in DOMAIN cmds : cmds[i].logId # 0})
  /\ \A i \in DOMAIN cmds :
       /\ (~cmds[i].missing /\ ~cmds[i].noPages) => cmds[i].logId \in DOMAIN callLog
       /\ \A j \in DOMAIN cmds :
            (i # j /\ cmds[i].logId # 0) => cmds[i].logId # cmds[j].logId
  /\ \A i \in DOMAIN cmds, j \in DOMAIN cmds :
       ( /\ i < j
         /\ cmds[i].kind = "extraction" /\ cmds[j].kind = "extraction"
         /\ cmds[i].param = cmds[j].param /\ cmds[i].name = cmds[j].name
         /\ cmds[i].pc = "fulfilled" /\ cmds[j].pc = "fulfilled"
         /\ cmds[i].version = cmds[j].version )
       => /\ callLog[cmds[i].logId].status = "done"
          /\ callLog[cmds[j].logId].status = "done"
          /\ callLog[cmds[i].logId].result = callLog[cmds[j].logId].result

\* C12 witness: the same extraction was dispatched twice, both completed
\* after the document had changed once, and the log holds two done entries.
C12_SameExtractionTwice ==
  /\ Len(cmds) = 2 /\ Len(callLog) = 2
  /\ \A i \in {1, 2} : /\ cmds[i].kind = "extraction"
                        /\ cmds[i].pc = "fulfilled"
                        /\ cmds[i].version = 1
                        /\ callLog[i].status = "done"
  /\ callLog[1].result = callLog[2].result

\* C13: a clear event leaves the ActionStream empty, regenerates the Sources
\* from the empty sequence and pushes them behind the user sources; it
\* changes neither generator id, nor the options, nor the user sources.
C13_ClearEmptiesAndRegenerates ==
  [][HandleClear =>
       /\ actions' = <<>>
       /\ recorderSources' = GeneratedSources(<<>>, generateAutoExpect)
       /\ surface'.sources = userSources \o recorderSources'
       /\ surface'.calls[1] = "playwrightSetSources"
       /\ UNCHANGED <<selectedGeneratorId, primaryGeneratorId,
                      generateAutoExpect, userSources>>]_vars

\* C13 witness: a clear was the last event of a session that had recorded
\* actions (their text reached the output file), user sources, a changed
\* option and a selected generator other than the primary one.
C13_ClearedRecordedSession ==
  /\ lastDispatch.event = "clear" /\ recorderCalls = << <<"clear">> >>
  /\ actions = <<>> /\ userSources # <<>>
  /\ generateAutoExpect = <<TRUE>>
  /\ selectedGeneratorId # primaryGeneratorId
  /\ outputFile.written # <<>> /\ outputFile.written[1][2] # <<>>
  /\ recorderSources = GeneratedSources(<<>>, <<TRUE>>)

\* C14, as claimed: a fileChanged event whose fileId is the id of a
\* user-authored source makes that id the selected generator and sets the
\* language; one whose fileId matches no source changes nothing.
C14_UserSourceBecomesSelected ==
  [][\A f \in FileIdInputs :
       HandleFileChanged(f) =>
         /\ (\E k \in DOMAIN userSources : userSources[k].id = f)
              => /\ selectedGeneratorId' = f
                 /\ recorderCalls' # <<>>
         /\ (\A k \in DOMAIN (recorderSources \o userSources) :
                (recorderSources \o userSources)[k].id # f)
              => /\ recorderCalls' = <<>>
                 /\ UNCHANGED <<sessionVars, surface, outputFile>>]_vars

\* C14, as the code has it: the id of a recorded Source becomes the selected
\* generator and its language is set; the id of a user-authored source only
\* sets the language; an id that matches no source changes nothing.
C14_RecordedSourceBecomesSelected ==
  [][\A f \in FileIdInputs :
       HandleFileChanged(f) =>
         /\ \A k \in DOMAIN recorderSources :
              recorderSources[k].id = f
              => /\ selectedGeneratorId' = f
                 /\ recorderCalls' =
                      << <<"setLanguage", recorderSources[k].language>> >>
         /\ \A k \in DOMAIN userSources :
              ( /\ userSources[k].id = f
                /\ \A j \in DOMAIN recorderSources : recorderSources[j].id # f )
              => /\ UNCHANGED selectedGeneratorId
                 /\ recorderCalls' =
                      << <<"setLanguage", userSources[k].language>> >>
         /\ (\A k \in DOMAIN (recorderSources \o userSources) :
                (recorderSources \o userSources)[k].id # f)
              => /\ recorderCalls' = <<>>
                 /\ UNCHANGED selectedGeneratorId
         /\ UNCHANGED <<actions, recorderSources, userSources,
                        primaryGeneratorId, generateAutoExpect, surface,
                        outputFile>>]_vars

\* C14 witness: the user's file was chosen while the python generator was
\* selected: the language was set to the file's, the generator stayed.
C14_UserFileChosen ==
  /\ lastDispatch.event = "fileChanged"
  /\ userSources = <<UserSource>>
  /\ recorderCalls = << <<"setLanguage", UserSource.language>> >>
  /\ selectedGeneratorId = "python"

\* C15: a setAutoExpect event stores the given value as the option and makes
\* one push of the Sources regenerated from the unchanged ActionStream,
\* with no select-source call.
C15_SetAutoExpectRegeneratesOnce ==
  [][\A v \in BOOLEAN :
       HandleSetAutoExpect(v) =>
         /\ generateAutoExpect' = <<v>>
         /\ actions' = actions
         /\ recorderSources' = GeneratedSources(actions, <<v>>)
         /\ surface'.sources = userSources \o recorderSources'
         /\ surface'.calls = <<"playwrightSetSources">>
         /\ surface'.sourceId = surface.sourceId]_vars

\* C15 witness: the option was switched on with actions recorded while the
\* control surface showed another source than the selected generator's.
C15_OptionSetWhileUserSourceShown ==
  /\ lastDispatch.event = "setAutoExpect"
  /\ generateAutoExpect = <<TRUE>>
  /\ actions # <<>>
  /\ surface.calls = <<"playwrightSetSources">>
  /\ surface.sourceId # selectedGeneratorId
  /\ recorderSources = GeneratedSources(actions, <<TRUE>>)

\* C16: once a teardown has begun, on either path, the output file holds
\* no pending text: it was flushed before the session was discarded.
C16_FlushedBeforeTeardown ==
  lifecycle # "open" => outputFile.pending = <<>>

\* C17: when a generator throws, every generator that does not throw still
\* has its Source regenerated from the current ActionStream, and the list
\* is pushed to the control surface.
C17_HealthyGeneratorsStillProduce ==
  /\ \A i \in DOMAIN LanguageSet :
       LanguageSet[i].id \notin brokenGenerators
       => /\ i \in DOMAIN recorderSources
          /\ recorderSources[i] =
               GeneratedSources(actions, generateAutoExpect)[i]
  /\ surface.sources = userSources \o recorderSources

\* C18: the recorded Sources the session holds, and the ones last pushed,
\* are those generated from the collapse of the current ActionStream under
\* the current options.
C18_SourcesFollowActionStream ==
  /\ recorderSources = GeneratedSources(actions, generateAutoExpect)
  /\ SubSeq(surface.sources, Len(userSources) + 1, Len(surface.sources))
       = GeneratedSources(actions, generateAutoExpect)

\* C18 witness: two recorded actions, a signal attached to the latest one
\* and the option set, after a clear.
C18_SignalOnLatestAction ==
  /\ Len(actions) = 2
  /\ actions[2].signals # <<>> /\ actions[1].signals = <<>>
  /\ generateAutoExpect = <<FALSE>>
  /\ lastDispatch.event = "setAutoExpect"
  /\ surface.calls = <<"playwrightSetSources">>

\* C19: the recorded Sources are one per registered generator, in
\* registration order, each with its generator's id and isRecorded; the
\* pushed list is the user sources followed by them.
C19_OneSourcePerGenerator ==
  /\ DOMAIN recorderSources = DOMAIN LanguageSet
  /\ \A i \in DOMAIN recorderSources :
       /\ recorderSources[i].id = LanguageSet[i].id
       /\ recorderSources[i].isRecorded
  /\ surface.sources = userSources \o recorderSources
  /\ \A k \in DOMAIN userSources : ~userSources[k].isRecorded

\* C19 witness: the list was regenerated for a new action and pushed behind
\* a user source.
C19_RegeneratedBehindUserSource ==
  /\ actions # <<>> /\ userSources # <<>>
  /\ Len(surface.sources) = Len(LanguageSet) + 1
  /\ surface.calls = <<"playwrightSetSources", "playwrightSelectSource">>
  /\ \A i \in DOMAIN recorderSources : recorderSources[i].text[2] # <<>>

\* C20: with an output file configured, the text last handed to it (pending
\* or already written) is the text of the Source of the primary generator
\* in the pushed list, whichever generator is selected; without an output
\* file, or with a primary id no generator has, nothing is handed over.
C20_LatestContent ==
  IF outputFile.pending # <<>> THEN outputFile.pending ELSE outputFile.written

C20_PrimaryTextMirrored ==
  /\ \A i \in DOMAIN surface.sources :
       ( /\ outputFile.configured
         /\ surface.sources[i].isRecorded
         /\ surface.sources[i].id = primaryGeneratorId )
       => C20_LatestContent = <<surface.sources[i].text>>
  /\ ( \/ ~outputFile.configured
       \/ primaryGeneratorId \notin GeneratorIds )
     => outputFile.pending = <<>> /\ outputFile.written = <<>>

\* C20 witness: the primary generator is python, the selected one is not,
\* and the text of a recorded action is pending for the output file.
C20_PendingWhileOtherSelected ==
  /\ outputFile.configured
  /\ primaryGeneratorId = "python" /\ selectedGeneratorId = "playwright-test"
  /\ actions # <<>>
  /\ outputFile.pending = <<recorderSources[2].text>>
  /\ outputFile.written # <<>>

\* C21: the result of an arbitrary expression depends on the expression and
\* the page only: an awaited expression can end in the same ways in every
\* host process, and no published result is a value of the host process.
C21_ResultIndependentOfHost ==
  /\ \A i \in DOMAIN cmds :
       (cmds[i].kind = "code" /\ cmds[i].pc = "awaiting") =>
         \A hostState \in HostInputs :
            OutcomesOn(cmds[i].op, dom.text, hostState) = Outcomes(cmds[i].op)
  /\ \A k \in DOMAIN published : published[k].result \notin HostInputs

\* C22: whatever the interleaving of concurrently issued commands, every
\* entry of the call log belongs to exactly one command, was created before
\* that command's operation ended, and carries that command's terminal
\* update and no other: it is in progress while its command is awaiting, done
\* with the command's value once the command is fulfilled, in error with
\* the command's error once it is rejected.
C22_UpdatesOwnEntryOnly ==
  /\ \A k \in DOMAIN callLog :
       Cardinality({i \in DOMAIN cmds : cmds[i].logId = k}) = 1
  /\ \A i \in DOMAIN cmds :
       cmds[i].logId # 0 =>
         /\ cmds[i].logId \in DOMAIN callLog
         /\ LET entry == callLog[cmds[i].logId]
            IN /\ cmds[i].pc = "awaiting" =>
                    entry.status = "in-progress" /\ entry.updates = 0
               /\ cmds[i].pc = "fulfilled" =>
                    /\ entry.status = "done" /\ entry.updates = 1
                    /\ entry.result = cmds[i].value
               /\ cmds[i].pc = "rejected" =>
                    /\ entry.status = "error" /\ entry.updates = 1
                    /\ entry.error = cmds[i].err

\* C22 witness: of two concurrent commands the one issued last completed
\* first: its entry is done while the entry of the first is in progress.
C22_CompletedOutOfIssueOrder ==
  /\ Len(cmds) = 2
  /\ cmds[1].pc = "awaiting" /\ cmds[2].pc = "fulfilled"
  /\ cmds[1].kind = "extraction"
  /\ callLog[cmds[1].logId].status = "in-progress"
  /\ callLog[cmds[2].logId].status = "done"

\* C23: once the session is gone (the page of the control surface has
\* closed and the session was discarded), no step writes to the call log or
\* pushes a result to the control surface: a continuation that resumes after
\* the teardown does neither.
C23_NoWriteAfterTeardown ==
  [][lifecycle = "discarded" => UNCHANGED <<callLog, published>>]_vars

\* C24: a failed delivery of an outbound push is swallowed: the promise of
\* no call made on the control surface ends as an unhandled rejection, and
\* a command whose result could not be delivered is fulfilled all the same,
\* with its entry done.
C24_DeliveryFailuresSwallowed ==
  /\ \A k \in DOMAIN deliveries : deliveries[k].outcome # "unhandled"
  /\ \A i \in DOMAIN cmds :
       cmds[i].pushes = 1 =>
         /\ cmds[i].pc = "fulfilled"
         /\ callLog[cmds[i].logId].status = "done"

C28_CodeRunsOnFirstPage ==
  [][(Len(cmds') = Len(cmds) + 1 /\ cmds'[Len(cmds')].kind = "code"
        /\ ~cmds'[Len(cmds')].missing) =>
       LET cmd == cmds'[Len(cmds')]
       IN IF pages = <<>>
          THEN /\ cmd.pc = "rejected" /\ cmd.err = ErrNoPagesCode
               /\ cmd.logId = 0 /\ cmd.pageIndex = 0
               /\ callLog' = callLog
          ELSE /\ cmd.pageIndex \in DOMAIN pages
               /\ pages[cmd.pageIndex] = Head(pages)
               /\ cmd.logId = Len(callLog) + 1
               /\ cmd.op.kind = "expr"]_vars

\* C28 witness: an expression was dispatched while two pages were tracked,
\* the one with the higher id first; an earlier expression had been refused
\* for want of a page.
C28_DispatchedWithTwoPages ==
  /\ pages = <<2, 1>>
  /\ Len(cmds) = 2
  /\ cmds[1].kind = "code" /\ cmds[1].err = ErrNoPagesCode
  /\ cmds[2].kind = "code" /\ cmds[2].pc = "awaiting" /\ cmds[2].pageIndex = 1
  /\ lastDispatch.event = "executeArbitraryCode"

\* C29: a performExtraction command that has a locator and a page, and
\* whose kind is none of the eight supported ones, starts no query against
\* the page; the only way its operation can end is the failure 'Unsupported
\* extraction: <kind>', not even the deadline; once it has ended the command
\* is rejected with that error, its entry is in error with it and nothing
\* was published.
C29_UnsupportedExtractionFails ==
  \A i \in DOMAIN cmds :
    ( /\ cmds[i].kind = "extraction"
      /\ ~cmds[i].missing /\ ~cmds[i].noPages
      /\ cmds[i].name \notin SupportedExtractions ) =>
        LET e == ErrUnsupportedExtraction(cmds[i].name)
        IN /\ cmds[i].op.kind = "unsupported"
           /\ Outcomes(cmds[i].op) =
                {[ok |-> FALSE, value |-> Undefined, err |-> e]}
           /\ cmds[i].pc # "fulfilled"
           /\ cmds[i].pc = "rejected" =>
                /\ cmds[i].err = e
                /\ callLog[cmds[i].logId].status = "error"
                /\ callLog[cmds[i].logId].error = e
                /\ cmds[i].pushes = 0

\* C29 witness: an outerHTML extraction was rejected as unsupported on a
\* tracked page, while a supported extraction is awaiting its query.
C29_UnsupportedBesideSupported ==
  /\ pages # <<>>
  /\ \E i \in DOMAIN cmds :
       /\ cmds[i].kind = "extraction" /\ cmds[i].name = "outerHTML"
       /\ cmds[i].err = ErrUnsupportedExtraction("outerHTML")
       /\ callLog[cmds[i].logId].status = "error"
  /\ \E i \in DOMAIN cmds :
       /\ cmds[i].kind = "extraction" /\ cmds[i].op.kind = "query"
       /\ cmds[i].pc = "awaiting"

\* C30: in programmatic mode the events emitted for actions are: first an
\* 'actionAdded'; after that 'actionUpdated' exactly when the action merges
\* with the action of the event before it, 'actionAdded' otherwise.  Each
\* carries one code fragment, the chosen generator's fragment for its own
\* action, and the page of the action.  An action whose page is found emits
\* exactly one event, an action whose page is not found emits none and is
\* not remembered.
C30_ActionEvents ==
  SelectSeq(programmatic.emitted, LAMBDA e : e.event # "signalAdded")

C30_EmittedAsAddedOrUpdated ==
  /\ \A k \in DOMAIN C30_ActionEvents :
       LET e == C30_ActionEvents[k]
       IN /\ e.event \in {"actionAdded", "actionUpdated"}
          /\ k = 1 => e.event = "actionAdded"
          /\ k > 1 => (e.event = "actionUpdated"
                         <=> ShouldMergeAction(e.data, C30_ActionEvents[k - 1].data))
          /\ e.code = <<<<programmatic.languageGenerator.id, e.data>>>>
          /\ e.page = e.data.pageGuid /\ e.page # 0
  /\ programmatic.lastAction =
       IF C30_ActionEvents = <<>> THEN <<>>
       ELSE <<C30_ActionEvents[Len(C30_ActionEvents)].data>>

C30_OneEventPerFoundAction ==
  \A a \in RecordedActions(Len(programmatic.emitted) + 1) :
    ProgrammaticActionAdded(a) =>
      IF \E k \in DOMAIN pages : pages[k] = a.pageGuid
      THEN /\ Len(programmatic'.emitted) = Len(programmatic.emitted) + 1
           /\ programmatic'.emitted[Len(programmatic'.emitted)].data = a
      ELSE UNCHANGED programmatic

C30_ProgrammaticEvents ==
  []C30_EmittedAsAddedOrUpdated /\ [][C30_OneEventPerFoundAction]_vars

\* C30 witness: with the python generator chosen, a fill was added, a fill
\* of the same field updated it and a click was added.
C30_AddedUpdatedAdded ==
  /\ programmatic.languageGenerator.id = "python"
  /\ Len(programmatic.emitted) = 3
  /\ programmatic.emitted[1].event = "actionAdded"
  /\ programmatic.emitted[2].event = "actionUpdated"
  /\ programmatic.emitted[3].event = "actionAdded"
  /\ programmatic.emitted[3].data.name = "click"
  /\ programmatic.emitted[3].code = <<<<"python", programmatic.emitted[3].data>>>>

\* C31 (as stated): the ActionStream and the generated Sources change only
\* in a step that is an organic ActionAdded or a clear.
C31_OnlyAddedAndClearChange ==
  [][(actions' # actions \/ recorderSources' # recorderSources)
       => \/ \E a \in OrganicActions(Len(actions) + 1) : ActionAdded(a)
          \/ HandleClear]_vars

\* C31 (amended): the ActionStream and the generated Sources change only in
\* a step that is an organic ActionAdded, a clear, a SignalAdded or a
\* setAutoExpect; a step of an ad hoc command (its dispatch, the end of its
\* operation with a value or a failure, the reaction to its rejection)
\* leaves both unchanged, and the Sources are never anything but the
\* Sources generated from the ActionStream.
C31_CommandStep ==
  cmds' # cmds \/ callLog' # callLog \/ published' # published
    \/ consoleErrors' # consoleErrors

C31_RecordingStep ==
  \/ \E a \in OrganicActions(Len(actions) + 1) : ActionAdded(a)
  \/ HandleClear
  \/ \E signal \in SignalInputs : SignalAdded(signal)
  \/ \E v \in BOOLEAN : HandleSetAutoExpect(v)

C31_OnlyRecordingEventsChange ==
  [][/\ (actions' # actions \/ recorderSources' # recorderSources)
          => C31_RecordingStep
     /\ C31_CommandStep => UNCHANGED <<actions, recorderSources>>
     /\ recorderSources' # recorderSources
          => recorderSources' = GeneratedSources(actions', generateAutoExpect')]_vars

\* C31 witness: beside a recorded action that carries a signal, an
\* expression was executed and failed, and the Sources are still those of
\* the one recorded action.
C31_CommandsBesideRecordedAction ==
  /\ Len(actions) = 1 /\ actions[1].signals # <<>>
  /\ \E i \in DOMAIN cmds :
       /\ cmds[i].kind = "code" /\ cmds[i].pc = "rejected"
       /\ cmds[i].reaction = "logged"
       /\ callLog[cmds[i].logId].status = "error"
  /\ recorderSources = GeneratedSources(actions, generateAutoExpect)
  /\ \A k \in DOMAIN recorderSources : Len(recorderSources[k].actions) = 1

\* C32: a SignalAdded appends the signal to the signals of the latest action
\* of the signal's page and changes nothing else of the ActionStream: its
\* length, its order and every other field of every action stay; when the
\* page has no action the stream stays as it is.  In both cases the Sources
\* are regenerated from the stream and pushed.
C32_SignalOnLatestActionOfPage ==
  [][\A signal \in SignalInputs :
       SignalAdded(signal) =>
         LET matching == {i \in DOMAIN actions :
                            actions[i].pageGuid = signal.pageGuid}
             target == IF matching = {} THEN 0
                       ELSE CHOOSE i \in matching : \A j \in matching : j <= i
         IN /\ Len(actions') = Len(actions)
            /\ \A i \in DOMAIN actions :
                 actions'[i] =
                   IF i = target
                   THEN [actions[i] EXCEPT !.signals = actions[i].signals
                                                         \o <<signal.signal>>]
                   ELSE actions[i]
            /\ target = 0 => actions' = actions
            /\ recorderSources' = GeneratedSources(actions', generateAutoExpect)
            /\ surface'.calls = <<"playwrightSetSources">>
            /\ surface'.sources = userSources \o recorderSources']_vars

\* C32 witness: an action of page 1 was followed by an action of page 2,
\* and a signal of page 1 is on the first of them only.
C32_SignalOnEarlierAction ==
  /\ Len(actions) = 2
  /\ actions[1].pageGuid = 1 /\ actions[2].pageGuid = 2
  /\ actions[1].signals = <<"navigation">> /\ actions[2].signals = <<>>
  /\ surface.calls = <<"playwrightSetSources">>
  /\ recorderSources = GeneratedSources(actions, generateAutoExpect)

\* C33: an element pick brings the control surface to front exactly when
\* it comes with userGesture true; with userGesture false or absent only the
\* picked element is pushed.  The picked element is pushed in every case,
\* after the call that brings the surface to front, and no other push
\* brings the surface to front.
C33_FrontBeforePick ==
  \A k \in DOMAIN deliveries :
     deliveries[k].call = "bringToFront"
       => /\ k + 1 \in DOMAIN deliveries
          /\ deliveries[k + 1].call = "playwrightElementPicked"

C33_FrontOnlyForUserGesture ==
  /\ []C33_FrontBeforePick
  /\ [][\A userGesture \in GestureInputs :
          ElementPicked(userGesture) =>
            LET added == SubSeq(deliveries', Len(deliveries) + 1, Len(deliveries'))
            IN /\ added # <<>>
               /\ added[Len(added)].call = "playwrightElementPicked"
               /\ (userGesture = <<TRUE>>) <=>
                    (Len(added) = 2 /\ added[1].call = "bringToFront")
               /\ (userGesture # <<TRUE>>) <=> (Len(added) = 1)]_vars

\* C33 witness: a programmatic pick was pushed without a call to bring the
\* surface to front, then a pick by user gesture brought it to front.
C33_ProgrammaticThenGesture ==
  /\ Len(deliveries) = 3
  /\ deliveries[1].call = "playwrightElementPicked"
  /\ deliveries[2].call = "bringToFront"
  /\ deliveries[2].outcome = "delivered"
  /\ deliveries[3].call = "playwrightElementPicked"

\* C34: at any time at most one call of show / showInspectorNoReply for
\* the context is past the already-shown check with its recorder app being
\* created or its window open, and the marker is set then; a call that
\* reaches the check while the marker is set returns without launching.
C34_PastCheck ==
  {k \in DOMAIN shows :
     /\ shows[k].pc \in {"launching", "loading", "init", "navigating", "shown"}
     /\ shows[k].window # "closed"}

C34_AtMostOneAtATime ==
  /\ Cardinality(C34_PastCheck) <= 1
  /\ Cardinality({k \in DOMAIN shows : shows[k].window = "open"}) <= 1
  /\ C34_PastCheck # {} => marker

C34_AtMostOneRecorderApp ==
  /\ []C34_AtMostOneAtATime
  /\ [][\A k \in DOMAIN shows :
          (marker /\ ForContextSettled(k, TRUE))
            => shows'[k].pc \in {"returned", "programmatic"}]_vars

\* C34 witness: the first call opened the recorder window and a concurrent
\* second call returned at the check.
C34_SecondCallReturned ==
  /\ Len(shows) = 2
  /\ shows[1].pc = "shown" /\ shows[1].window = "open"
  /\ shows[2].pc = "returned" /\ shows[2].entry = "showInspectorNoReply"
  /\ marker

\* C35: the marker is set only while a recorder app of the context is being
\* created or exists with its window open: a window that closed and a
\* creation that failed leave no marker behind.
C35_MarkerOnlyWhileAppExists ==
  marker =>
    \E k \in DOMAIN shows :
       /\ shows[k].pc \in {"launching", "loading", "init", "navigating", "shown"}
       /\ shows[k].window # "closed"

\* C36: the dispatch of an event of a kind that EventData declares never
\* ends with the 'Unknown event' error.
C36_DeclaredEventsAccepted ==
  lastDispatch.event \in EventDataKinds =>
    ~(lastDispatch.threw /\ lastDispatch.err = ErrUnknownEvent(lastDispatch.event))

\* C37: a performAction command with a locator, issued while a page is
\* tracked, with any of the action names the control surface can send, has
\* created its call-log entry and reached the execute step; none is refused
\* as an unsupported action.
C37_EveryOfferedActionExecutes ==
  /\ ActionInputs \subseteq PerformActionNames
  /\ \A i \in DOMAIN cmds :
       (cmds[i].kind = "action" /\ ~cmds[i].missing /\ ~cmds[i].noPages)
         => /\ cmds[i].logId # 0
            /\ cmds[i].op # NoOp
            /\ \A a \in PerformActionNames : cmds[i].err # ErrUnsupportedAction(a)

\* C38: an expression that calls a locator method the classifier takes for
\* an extraction never fails because the locator has no such method.
C38_ExtractionMethodsProvided ==
  \A i \in DOMAIN cmds :
     (cmds[i].kind = "code" /\ ~cmds[i].missing
        /\ IsExtractionCommand(cmds[i].param.text))
       => \A method \in ExtractionMethods :
             cmds[i].failure # ErrNotAFunction(method)

\* C39: the primary generator id never changes; the selected generator id
\* starts as the primary one, is changed by no step but a fileChanged event,
\* and is at any time the primary id or the id of a recorded Source.
C39_SelectedIsPrimaryOrRecorded ==
  \/ selectedGeneratorId = primaryGeneratorId
  \/ \E k \in DOMAIN recorderSources :
        /\ recorderSources[k].id = selectedGeneratorId
        /\ recorderSources[k].isRecorded

C39_SelectionChangedByFileChangedOnly ==
  /\ selectedGeneratorId = primaryGeneratorId
  /\ []C39_SelectedIsPrimaryOrRecorded
  /\ [][/\ primaryGeneratorId' = primaryGeneratorId
        /\ selectedGeneratorId' # selectedGeneratorId
             => \E f \in FileIdInputs : HandleFileChanged(f)]_vars

\* C39 witness: in a session whose primary generator id is the id of no
\* generator, a recorded Source was selected and the session was cleared
\* afterwards: the selection stayed.
C39_SelectionKeptAcrossClear ==
  /\ primaryGeneratorId \notin GeneratorIds
  /\ selectedGeneratorId \in GeneratorIds
  /\ lastDispatch.event = "clear"
  /\ userSources # <<>>

\* C40: a toast of duration 0 leaves the list only by a click; a toast of
\* another or of no duration leaves it by a timer no earlier than its
\* duration (5000 ms when it has none) after it was added, and does leave
\* it eventually; a click removes the clicked toast and keeps the others in
\* their order; a timer that fires for a toast no longer in the list leaves
\* the list as it is.
C40_ToastIds == {toastUi.toasts[i].id : i \in DOMAIN toastUi.toasts}

C40_TimerStep ==
  \A timer \in toastUi.timers :
     ToastTimerFired(timer) =>
       /\ timer.id \notin C40_ToastIds => toastUi'.toasts = toastUi.toasts
       /\ \A i \in DOMAIN toastUi.toasts :
            LET toast == toastUi.toasts[i]
            IN IF toast.id # timer.id
               THEN \E j \in DOMAIN toastUi'.toasts : toastUi'.toasts[j] = toast
               ELSE /\ toast.duration # <<0>>
                    /\ toastUi.now >= toast.createdAt
                          + (IF toast.duration = <<>> THEN 5000
                             ELSE toast.duration[1])

C40_ClickStep ==
  \A id \in 1..MaxToasts :
     ToastClicked(id) =>
       /\ Len(toastUi'.toasts) = Len(toastUi.toasts) - 1
       /\ \A i \in DOMAIN toastUi'.toasts :
            toastUi'.toasts[i] =
              toastUi.toasts[IF toastUi.toasts[i].id = id
                                \/ \E j \in 1..i : toastUi.toasts[j].id = id
                             THEN i + 1 ELSE i]

C40_PermanentLeavesByClickOnly ==
  \A i \in DOMAIN toastUi.toasts :
     (toastUi.toasts[i].duration = <<0>>
        /\ \A j \in DOMAIN toastUi'.toasts :
              toastUi'.toasts[j].id # toastUi.toasts[i].id)
       => ToastClicked(toastUi.toasts[i].id)

C40_ToastsExpire ==
  /\ [][C40_TimerStep /\ C40_ClickStep /\ C40_PermanentLeavesByClickOnly]_vars
  /\ \A id \in 1..MaxToasts :
       (\E i \in DOMAIN toastUi.toasts :
           toastUi.toasts[i].id = id /\ toastUi.toasts[i].duration # <<0>>)
         ~> (id \notin C40_ToastIds)

\* C40 witness: a permanent toast is still shown after 5000 ms, next to it a
\* toast without duration was removed, and no timer is left to fire.
C40_PermanentOutlivesTimed ==
  /\ toastUi.added = 2
  /\ Len(toastUi.toasts) = 1
  /\ toastUi.toasts[1].duration = <<0>> /\ toastUi.toasts[1].id = 1
  /\ toastUi.now >= toastUi.toasts[1].createdAt + DefaultToastMs
  /\ toastUi.timers = {}

====
